---- MODULE Spec2Model ----
(***************************************************************************)
(* Quote extraction of win-state: the worker of yf_quote_worker/src/lib.rs *)
(* (batch fan-out with join_all, one pipeline per code), the command-line  *)
(* extractor of rust_extractor/src/bin/yf_quote.rs (sequential loop) and   *)
(* the /quote route of selector.rs (scrape_dynamically).                   *)
(*                                                                         *)
(* Text is a sequence of one-character strings, so that trim, split and    *)
(* prefix/suffix tests are computed as the code computes them.  A JSON     *)
(* value is a record [t, s, o, a]; an object's members are a function from *)
(* key to value and are iterated in key order (serde_json's default map).  *)
(* A page is what a fetch of one URL yields: the transport outcome, the    *)
(* embedded __PRELOADED_STATE__ block (absent, unparseable, or a tree) and *)
(* the elements of the document in document order.                         *)
(***************************************************************************)
EXTENDS Integers, Sequences, FiniteSets, TLC

VARIABLES
    prog,       \* which program runs: "worker", "cli" or "quote"
    codes_str,  \* the raw `code` argument: <<text>>, or <<>> when it is absent
    keys,       \* the worker's optional `keys` list: <<list>> or <<>>
    web,        \* URL -> page: what the site serves
    mainpc,     \* position of main: "init", "running", "responded", "rejected", "aborted"
    codes,      \* the parsed code list
    pc,         \* position of each code's pipeline
    results,    \* outcome of each code's pipeline (a one-element sequence once it has one)
    attempted,  \* the strategies each pipeline has attempted, in order
    fetched,    \* the URLs each pipeline has requested, in order
    response,   \* what main finally emits: <<[status, body]>>, or <<>> before that
    norm_in,    \* code normalization on its own: the requested code,
    norm_strip, \*   the schema's strip_suffix flag,
    norm_out,   \*   <<the comparison key>> once computed,
    norm_twice, \*   <<the key of the key>> once computed
    rank_in,    \* ranking on its own: the collected candidates,
    rank_seed,  \*   the iteration order of the hash map (also of a pipeline's maps),
    rank_out,   \*   <<the ranked list>> once computed,
    rerank_out, \*   <<[run, ranked]>>: a second run and its ranked list, once computed
    dispatched, \* the discovery pipelines each code was handed to, in order
    discovered, \* <<the DiscoveredData>> each code's discovery pipeline returned
    verify_req,      \* /verify-selector: the request's url and selector parameters,
    verify_page,     \*   the page the url serves,
    verify_pc,       \*   the handler's position: "idle", "init", "fetch", "done",
    verify_response  \*   <<[status, body]>> once it has answered

pipeline_vars ==
    <<prog, codes_str, keys, web, mainpc, codes, pc, results, attempted, fetched, response,
      dispatched, discovered>>

norm_vars == <<norm_in, norm_strip, norm_out, norm_twice>>

rank_vars == <<rank_in, rank_seed, rank_out, rerank_out>>

verify_vars == <<verify_req, verify_page, verify_pc, verify_response>>

vars == <<pipeline_vars, norm_vars, rank_vars, verify_vars>>

(***************************************************************************)
(* Bounds of the model.                                                    *)
(***************************************************************************)
MaxParts == 2

MaxElems == 2

MaxNormLen == 3

MaxCands == 3

MaxSeed == 5

(***************************************************************************)
(* Text.                                                                   *)
(***************************************************************************)
Range(q) == {q[i] : i \in 1..Len(q)}

Q == "\""

BSL == "\\"

IsWs(c) == c = " "

RECURSIVE TrimStart(_)
TrimStart(s) == IF s # <<>> /\ IsWs(Head(s)) THEN TrimStart(Tail(s)) ELSE s

RECURSIVE TrimEnd(_)
TrimEnd(s) == IF s # <<>> /\ IsWs(s[Len(s)]) THEN TrimEnd(SubSeq(s, 1, Len(s) - 1)) ELSE s

Trim(s) == TrimEnd(TrimStart(s))

RECURSIVE TrimStartMatches(_, _)
TrimStartMatches(s, c) == IF s # <<>> /\ Head(s) = c THEN TrimStartMatches(Tail(s), c) ELSE s

RECURSIVE TrimEndMatches(_, _)
TrimEndMatches(s, c) ==
    IF s # <<>> /\ s[Len(s)] = c THEN TrimEndMatches(SubSeq(s, 1, Len(s) - 1), c) ELSE s

TrimMatches(s, c) == TrimEndMatches(TrimStartMatches(s, c), c)

IndexOf(s, c) ==
    IF \E i \in 1..Len(s) : s[i] = c
    THEN CHOOSE i \in 1..Len(s) : s[i] = c /\ \A j \in 1..(i - 1) : s[j] # c
    ELSE 0

RECURSIVE Split(_, _)
Split(s, c) ==
    LET i == IndexOf(s, c)
    IN  IF i = 0 THEN <<s>>
        ELSE <<SubSeq(s, 1, i - 1)>> \o Split(SubSeq(s, i + 1, Len(s)), c)

StartsWith(s, p) == Len(s) >= Len(p) /\ SubSeq(s, 1, Len(p)) = p

EndsWith(s, p) == Len(s) >= Len(p) /\ SubSeq(s, Len(s) - Len(p) + 1, Len(s)) = p

ContainsCh(s, c) == \E i \in 1..Len(s) : s[i] = c

RECURSIVE Join(_, _)
Join(parts, c) ==
    IF parts = <<>> THEN <<>>
    ELSE IF Len(parts) = 1 THEN parts[1]
    ELSE parts[1] \o <<c>> \o Join(Tail(parts), c)

\* Literal texts of the programs.
T_OK == <<"O", "K">>

T_NA == <<"N", "/", "A">>

T_PREDEFINED == <<"j", "s", "o", "n", "_", "p", "r", "e", "d", "e", "f", "i", "n", "e", "d">>

T_FALLBACK == <<"j", "s", "o", "n", "_", "f", "a", "l", "l", "b", "a", "c", "k">>

T_DOM == <<"d", "o", "m", "_", "f", "a", "l", "l", "b", "a", "c", "k">>

T_NULL == <<"n", "u", "l", "l">>

SUFFIX_T == <<".", "T">>

SUFFIX_O == <<".", "O">>

(***************************************************************************)
(* JSON values (serde_json::Value).                                        *)
(***************************************************************************)
JNull == [t |-> "null", s |-> <<>>, o |-> <<>>, a |-> <<>>]

JStr(s) == [t |-> "str", s |-> s, o |-> <<>>, a |-> <<>>]

\* A number carries the text serde_json prints for it.
JNum(s) == [t |-> "num", s |-> s, o |-> <<>>, a |-> <<>>]

JObj(f) == [t |-> "obj", s |-> <<>>, o |-> f, a |-> <<>>]

JArr(q) == [t |-> "arr", s |-> <<>>, o |-> <<>>, a |-> q]

\* Every key of the model, in the order a BTreeMap<String, _> iterates them.
KeyOrder ==
    <<"bid", "change", "changePercent", "changePrice", "changePriceRate", "code",
      "currencyPairCode", "currencyPairName", "currencyPrices", "indexPrices",
      "items", "japanUpdateTime", "mainCurrencyPriceBoard",
      "mainDomesticIndexPriceBoard", "mainStocksPriceBoard", "marketTime", "name",
      "other", "pageInfo", "price", "priceBoard", "priceChange", "priceChangeRate",
      "priceDateTime", "priceUpdateTime", "price_change", "price_change_rate",
      "source", "status", "title", "tradeTime", "update_time">>

SortedKeys(S) == SelectSeq(KeyOrder, LAMBDA k : k \in S)

\* Map::insert: adds the key or replaces its value.
Insert(m, k, v) == [x \in (DOMAIN m) \cup {k} |-> IF x = k THEN v ELSE m[x]]

RECURSIVE Escape(_)
Escape(s) ==
    IF s = <<>> THEN <<>>
    ELSE (IF Head(s) = Q \/ Head(s) = BSL THEN <<BSL, Head(s)>> ELSE <<Head(s)>>)
         \o Escape(Tail(s))

\* Value::to_string of a scalar (the mapped fields of the model's trees are
\* scalars): a string in quotes with its quotes and backslashes escaped, a
\* number or null as written.
to_string(v) ==
    CASE v.t = "str" -> <<Q>> \o Escape(v.s) \o <<Q>>
      [] v.t = "num" -> v.s
      [] v.t = "null" -> T_NULL

\* value.to_string().trim_matches('"')
PlainText(v) == TrimMatches(to_string(v), Q)

(***************************************************************************)
(* Structured lookup of the worker (yf_quote_worker/src/lib.rs).           *)
(***************************************************************************)
Ok(m, tried) == [ok |-> TRUE, map |-> m, err |-> "", tried |-> tried]

Err(e, tried) == [ok |-> FALSE, map |-> <<>>, err |-> e, tried |-> tried]

E_JSON_NO_MATCH == "Could not find matching data in JSON."

E_JSON_PARSE == "Failed to parse JSON"

E_DOM_NAME == "Failed to scrape essential data (name) from DOM."

E_DOM_PRICE == "Failed to scrape essential data (price) from DOM."

E_FETCH == "Failed to fetch URL"

E_TEXT == "Failed to read response text"

get_data_sources ==
    << [path |-> <<"mainStocksPriceBoard", "priceBoard">>,
        mappings |-> [code |-> "code", name |-> "name", price |-> "price",
                      price_change |-> "priceChange",
                      price_change_rate |-> "priceChangeRate",
                      update_time |-> "priceDateTime"],
        strip_suffix |-> TRUE],
       [path |-> <<"mainCurrencyPriceBoard", "currencyPrices">>,
        mappings |-> [code |-> "currencyPairCode", name |-> "currencyPairName",
                      price |-> "bid", price_change |-> "priceChange",
                      price_change_rate |-> "priceChangeRate",
                      update_time |-> "priceUpdateTime"],
        strip_suffix |-> FALSE],
       [path |-> <<"mainDomesticIndexPriceBoard", "indexPrices">>,
        mappings |-> [code |-> "code", name |-> "name", price |-> "price",
                      price_change |-> "changePrice",
                      price_change_rate |-> "changePriceRate",
                      update_time |-> "japanUpdateTime"],
        strip_suffix |-> FALSE] >>

fallback_mappings ==
    [name |-> "name", price |-> "price", price_change |-> "priceChange",
     price_change_rate |-> "priceChangeRate", update_time |-> "priceDateTime"]

\* find_object: <<members>> of the object the path leads to, or <<>>.
RECURSIVE find_object(_, _)
find_object(value, path) ==
    IF path = <<>>
    THEN IF value.t = "obj" THEN <<value.o>> ELSE <<>>
    ELSE IF value.t = "obj" /\ Head(path) \in DOMAIN value.o
         THEN find_object(value.o[Head(path)], Tail(path))
         ELSE <<>>

\* get_string_value: <<text>> when the key holds a string, else <<>>.
get_string_value(obj, key) ==
    IF key \in DOMAIN obj /\ obj[key].t = "str" THEN <<obj[key].s>> ELSE <<>>

\* The suffix taken to start at the last '.' instead of the first.
strip_suffix_at_last_dot(code) ==
    LET parts == Split(code, ".")
    IN  IF Len(parts) = 1 THEN code ELSE Join(SubSeq(parts, 1, Len(parts) - 1), ".")

\* code.split('.').next().unwrap_or(code)
strip_suffix(code) == Split(code, ".")[1]

code_to_compare(code, strip) == IF strip THEN strip_suffix(code) ELSE code

\* The comparison of lib.rs:122 and :171.
code_matches(found_code, wanted) == Trim(found_code) = wanted

\* value[key] of serde_json: Null when value is no object or lacks the key.
Index(value, key) ==
    IF value.t = "obj" /\ key \in DOMAIN value.o THEN value.o[key] ELSE JNull

RECURSIVE Descend(_, _)
Descend(value, path) ==
    IF path = <<>> THEN value ELSE Descend(Index(value, Head(path)), Tail(path))

\* find_object_paths: the paths pushed to found_paths, in the order pushed.
RECURSIVE find_object_paths(_, _, _)
RECURSIVE find_in_members(_, _, _, _)
RECURSIVE find_in_elements(_, _, _)
find_object_paths(value, keys_to_find, current_path) ==
    IF value.t = "obj"
    THEN (IF \A k \in Range(keys_to_find) : k \in DOMAIN value.o
          THEN <<current_path>> ELSE <<>>)
         \o find_in_members(value.o, SortedKeys(DOMAIN value.o), keys_to_find, current_path)
    ELSE IF value.t = "arr"
         THEN find_in_elements(value.a, keys_to_find, current_path)
         ELSE <<>>

find_in_members(map, ks, keys_to_find, current_path) ==
    IF ks = <<>> THEN <<>>
    ELSE find_object_paths(map[Head(ks)], keys_to_find, Append(current_path, Head(ks)))
         \o find_in_members(map, Tail(ks), keys_to_find, current_path)

find_in_elements(arr, keys_to_find, current_path) ==
    IF arr = <<>> THEN <<>>
    ELSE find_object_paths(Head(arr), keys_to_find, current_path)
         \o find_in_elements(Tail(arr), keys_to_find, current_path)

\* The loop over keys_vec of lib.rs:125-135 (and :174-183).
RECURSIVE pick_keys(_, _, _, _, _)
pick_keys(keys_vec, code, obj, mappings, acc) ==
    IF keys_vec = <<>> THEN acc
    ELSE LET key == Head(keys_vec)
             next == IF key \in DOMAIN mappings
                     THEN IF mappings[key] \in DOMAIN obj
                          THEN Insert(acc, key, JStr(PlainText(obj[mappings[key]])))
                          ELSE acc
                     ELSE IF key = "code" THEN Insert(acc, "code", JStr(code))
                          ELSE acc
         IN  pick_keys(Tail(keys_vec), code, obj, mappings, next)

\* The record built from the matched object, lib.rs:123-142 (and :172-190).
build_results(code, obj, mappings, ks, tag) ==
    LET picked == IF ks # <<>>
                  THEN pick_keys(ks[1], code, obj, mappings, <<>>)
                  ELSE Insert(obj, "code", JStr(code))
    IN  Insert(Insert(picked, "status", JStr(T_OK)), "source", JStr(tag))

\* Whether schema `source` matches: its path resolves to an object whose code
\* field is a string that, trimmed, equals the code to compare.
source_matches(code, data, source) ==
    LET t == find_object(data, source.path)
    IN  /\ t # <<>>
        /\ "code" \in DOMAIN source.mappings
        /\ LET fc == get_string_value(t[1], source.mappings["code"])
           IN  fc # <<>> /\ code_matches(fc[1], code_to_compare(code, source.strip_suffix))

Min(S) == CHOOSE x \in S : \A y \in S : x <= y

\* The record taken from the last schema of the table that matches.
predefined_lookup_last_match(code, data, ks) ==
    LET sources == get_data_sources
        hits == {i \in 1..Len(sources) : source_matches(code, data, sources[i])}
    IN  IF hits = {} THEN <<>>
        ELSE LET source == sources[CHOOSE k \in hits : \A j \in hits : j <= k]
             IN  <<build_results(code, find_object(data, source.path)[1],
                                 source.mappings, ks, T_PREDEFINED)>>

\* 1. Try predefined paths: <<record>> of the first schema that matches, or <<>>.
predefined_lookup(code, data, ks) ==
    LET sources == get_data_sources
        hits == {i \in 1..Len(sources) : source_matches(code, data, sources[i])}
    IN  IF hits = {} THEN <<>>
        ELSE LET source == sources[Min(hits)]
             IN  <<build_results(code, find_object(data, source.path)[1],
                                 source.mappings, ks, T_PREDEFINED)>>

path_matches(code, data, path) ==
    LET target_obj == Descend(data, path)
    IN  /\ target_obj.t = "obj"
        /\ LET fc == get_string_value(target_obj.o, "code")
           IN  fc # <<>> /\ code_matches(fc[1], strip_suffix(code))

\* 2. Fallback to generic key search: <<record>> of the first found path whose
\* code matches, or <<>>.
generic_lookup(code, data, ks) ==
    LET found_paths == find_object_paths(data, <<"code">>, <<>>)
        hits == {j \in 1..Len(found_paths) : path_matches(code, data, found_paths[j])}
    IN  IF hits = {} THEN <<>>
        ELSE <<build_results(code, Descend(data, found_paths[Min(hits)]).o,
                             fallback_mappings, ks, T_FALLBACK)>>

\* The generic key search consulted before the schema table.
process_json_data_generic_first(code, data, ks) ==
    LET g == generic_lookup(code, data, ks)
    IN  IF g # <<>> THEN Ok(g[1], <<"generic">>)
        ELSE LET p == predefined_lookup(code, data, ks)
             IN  IF p # <<>> THEN Ok(p[1], <<"generic", "schema">>)
                 ELSE Err(E_JSON_NO_MATCH, <<"generic", "schema">>)

process_json_data(code, data, ks) ==
    LET p == predefined_lookup(code, data, ks)
    IN  IF p # <<>> THEN Ok(p[1], <<"schema">>)
        ELSE LET g == generic_lookup(code, data, ks)
             IN  IF g # <<>> THEN Ok(g[1], <<"schema", "generic">>)
                 ELSE Err(E_JSON_NO_MATCH, <<"schema", "generic">>)

(***************************************************************************)
(* The document.  An element is [tag, cls, anc, text]: cls is the set of   *)
(* marker fragments its class attribute contains, anc the <<tag, marker>>  *)
(* pairs of its ancestors, text its text content, untrimmed.               *)
(***************************************************************************)
M_PRICE_BLOCK == "_CommonPriceBoard__priceBlock"

M_VALUE == "_StyledNumber__value"

M_PRIMARY == "_PriceChangeLabel__primary"

M_SECONDARY == "_PriceChangeLabel__secondary"

M_BOARD_TIME == "_CommonPriceBoard__time"

M_TIME == "_Time"

M_TIMESTAMP == "timestamp"

\* "h1"
sel_name(e) == e.tag = "h1"

\* "div[class*='_CommonPriceBoard__priceBlock'] span[class*='_StyledNumber__value']"
sel_price(e) == e.tag = "span" /\ M_VALUE \in e.cls /\ <<"div", M_PRICE_BLOCK>> \in e.anc

\* "span[class*='_PriceChangeLabel__primary'] span[class*='_StyledNumber__value']"
sel_price_change(e) == e.tag = "span" /\ M_VALUE \in e.cls /\ <<"span", M_PRIMARY>> \in e.anc

\* "span[class*='_PriceChangeLabel__secondary'] span[class*='_StyledNumber__value']"
sel_price_change_rate(e) ==
    e.tag = "span" /\ M_VALUE \in e.cls /\ <<"span", M_SECONDARY>> \in e.anc

\* "li[class*='_CommonPriceBoard__time'] time, span[class*='_Time']"
sel_update_time(e) ==
    \/ e.tag = "time" /\ <<"li", M_BOARD_TIME>> \in e.anc
    \/ e.tag = "span" /\ M_TIME \in e.cls

\* "span[class*='_Time'], time[class*='timestamp']" (yf_quote.rs)
sel_cli_time(e) ==
    \/ e.tag = "span" /\ M_TIME \in e.cls
    \/ e.tag = "time" /\ M_TIMESTAMP \in e.cls

\* selector_map of process_dom_data: whether element e matches the key's selector.
selector_map(key, e) ==
    CASE key = "name" -> sel_name(e)
      [] key = "price" -> sel_price(e)
      [] key = "price_change" -> sel_price_change(e)
      [] key = "price_change_rate" -> sel_price_change_rate(e)
      [] key = "update_time" -> sel_update_time(e)
      [] OTHER -> FALSE

SelectorKeys == {"name", "price", "price_change", "price_change_rate", "update_time"}

\* The selector for the key in the worker's table, or in the extractor's
\* (yf_quote.rs:240-244), which differs in the selector of the update time.
selects(table, key, e) ==
    IF table = "cli" /\ key = "update_time" THEN sel_cli_time(e) ELSE selector_map(key, e)

\* document.select(..).next().map(|el| el.text().collect::<String>().trim()):
\* <<trimmed text>> of the first element, in document order, that matches.
select_first(dom, table, key) ==
    LET hits == {i \in 1..Len(dom) : selects(table, key, dom[i])}
    IN  IF hits = {} THEN <<>> ELSE <<Trim(dom[Min(hits)].text)>>

DefaultKeys == <<"code", "name", "price", "price_change", "price_change_rate", "update_time">>

\* The loop of lib.rs:227-242.
RECURSIVE scrape_keys(_, _, _, _)
scrape_keys(keys_to_process, code, dom, acc) ==
    IF keys_to_process = <<>> THEN acc
    ELSE LET key == Head(keys_to_process)
             value == IF key = "code" THEN <<code>>
                      ELSE IF key \in SelectorKeys
                           THEN select_first(dom, "worker", key)
                           ELSE <<>>
         IN  scrape_keys(Tail(keys_to_process), code, dom,
                         IF value # <<>> THEN Insert(acc, key, JStr(value[1])) ELSE acc)

process_dom_data(code, dom, ks) ==
    LET keys_to_process == IF ks # <<>> THEN ks[1] ELSE DefaultKeys
        scraped == scrape_keys(keys_to_process, code, dom, <<>>)
    IN  IF "name" \in Range(keys_to_process) /\ "name" \notin DOMAIN scraped
        THEN Err(E_DOM_NAME, <<"dom">>)
        ELSE IF "price" \in Range(keys_to_process) /\ "price" \notin DOMAIN scraped
             THEN Err(E_DOM_PRICE, <<"dom">>)
             ELSE Ok(Insert(Insert(scraped, "status", JStr(T_OK)),
                            "source", JStr(T_DOM)),
                     <<"dom">>)

\* lib.rs:65-69 (and yf_quote.rs:135-139): the path of the page requested.
url_for(code) ==
    IF \/ StartsWith(code, <<"^">>) \/ ContainsCh(code, "=")
       \/ EndsWith(code, SUFFIX_T) \/ EndsWith(code, SUFFIX_O)
    THEN code \o <<"/">>
    ELSE code \o SUFFIX_T \o <<"/">>

\* lib.rs:79-99: the body of a fetched page to the pipeline's Result.
extract(code, page, ks) ==
    IF page.block = "none" THEN process_dom_data(code, page.dom, ks)
    ELSE IF page.block = "bad" THEN Err(E_JSON_PARSE, <<>>)
    ELSE process_json_data(code, page.tree, ks)

\* CodeResult
CodeResult(code, data, error) == [code |-> code, data |-> data, error |-> error]

\* lib.rs:101-104
to_code_result(code, r) ==
    IF r.ok THEN CodeResult(code, <<r.map>>, <<>>) ELSE CodeResult(code, <<>>, <<r.err>>)

\* lib.rs:41-45: split on ',', drop the empty parts, trim each.
parse_codes(str) ==
    LET parts == SelectSeq(Split(str, ","), LAMBDA x : x # <<>>)
    IN  [i \in 1..Len(parts) |-> Trim(parts[i])]

(***************************************************************************)
(* Structured lookup and DOM fallback of the command-line extractor        *)
(* (rust_extractor/src/bin/yf_quote.rs).                                   *)
(***************************************************************************)
E_CLI_NO_DATA == "No data found matching code"

E_CLI_DOM == "Failed to scrape data from DOM"

\* get_string_value(..).unwrap_or("N/A")
string_or_na(obj, key) ==
    LET v == get_string_value(obj, key) IN IF v # <<>> THEN v[1] ELSE T_NA

\* obj.get(key).map_or("N/A", |v| v.to_string().trim_matches('"'))
plain_or_na(obj, key) == IF key \in DOMAIN obj THEN PlainText(obj[key]) ELSE T_NA

\* NormalizedData of yf_quote.rs:173-180
normalized_data(found_code, obj, m) ==
    [code |-> JStr(found_code),
     name |-> JStr(string_or_na(obj, m.name)),
     price |-> JStr(plain_or_na(obj, m.price)),
     price_change |-> JStr(plain_or_na(obj, m.price_change)),
     price_change_rate |-> JStr(plain_or_na(obj, m.price_change_rate)),
     update_time |-> JStr(string_or_na(obj, m.update_time))]

\* NormalizedData of yf_quote.rs:203-210
normalized_fallback(found_code, obj) ==
    [code |-> JStr(found_code),
     name |-> JStr(string_or_na(obj, "name")),
     price |-> JStr(plain_or_na(obj, "price")),
     price_change |-> JStr(plain_or_na(obj, "priceChange")),
     price_change_rate |-> JStr(plain_or_na(obj, "priceChangeRate")),
     update_time |-> JStr(plain_or_na(obj, "priceDateTime"))]

\* yf_quote.rs:163-185
cli_predefined(code, data) ==
    LET sources == get_data_sources
        hits == {i \in 1..Len(sources) : source_matches(code, data, sources[i])}
    IN  IF hits = {} THEN <<>>
        ELSE LET source == sources[Min(hits)]
                 obj == find_object(data, source.path)[1]
             IN  <<normalized_data(get_string_value(obj, source.mappings["code"])[1],
                                   obj, source.mappings)>>

\* yf_quote.rs:188-216
cli_generic(code, data) ==
    LET found_paths == find_object_paths(data, <<"code", "name">>, <<>>)
        hits == {j \in 1..Len(found_paths) : path_matches(code, data, found_paths[j])}
    IN  IF hits = {} THEN <<>>
        ELSE LET obj == Descend(data, found_paths[Min(hits)]).o
             IN  <<normalized_fallback(get_string_value(obj, "code")[1], obj)>>

\* yf_quote.rs:160-229
cli_json(code, data) ==
    LET p == cli_predefined(code, data)
    IN  IF p # <<>> THEN Ok(p[1], <<"schema">>)
        ELSE LET g == cli_generic(code, data)
             IN  IF g # <<>> THEN Ok(g[1], <<"schema", "generic">>)
                 ELSE Err(E_CLI_NO_DATA, <<"schema", "generic">>)

first_or_na(dom, key) ==
    LET v == select_first(dom, "cli", key) IN IF v # <<>> THEN v[1] ELSE T_NA

\* yf_quote.rs:235-263
cli_dom(code, dom) ==
    LET name == first_or_na(dom, "name")
        price == first_or_na(dom, "price")
    IN  IF name # T_NA /\ price # T_NA
        THEN Ok([code |-> JStr(code), name |-> JStr(name), price |-> JStr(price),
                 price_change |-> JStr(first_or_na(dom, "price_change")),
                 price_change_rate |-> JStr(first_or_na(dom, "price_change_rate")),
                 update_time |-> JStr(first_or_na(dom, "update_time"))],
                <<"dom">>)
        ELSE Err(E_CLI_DOM, <<"dom">>)

\* yf_quote.rs:143-264: one fetched page to what the loop prints for the code.
cli_extract(code, page) ==
    IF page.block = "none" THEN cli_dom(code, page.dom)
    ELSE IF page.block = "bad" THEN Err(E_JSON_PARSE, <<>>)
    ELSE cli_json(code, page.tree)

\* yf_quote.rs:91: split on ',' and trim each part.
cli_codes(str) ==
    LET parts == Split(str, ",") IN [i \in 1..Len(parts) |-> Trim(parts[i])]

(***************************************************************************)
(* Inputs: requested codes, structured trees, documents, pages.            *)
(***************************************************************************)
c7203T == <<"7", "2", "0", "3", ".", "T">>

c7203 == <<"7", "2", "0", "3">>

c7203sp == <<" ", "7", "2", "0", "3", " ">>

cUSDJPY == <<"U", "S", "D", "J", "P", "Y", "=", "X">>

cDJI == <<"^", "D", "J", "I">>

tToyota == <<"T", "o", "y", "o", "t", "a">>

tPrice == <<"2", ",", "5", "0", "0">>

tChange == <<"+", "1", "0">>

tRate == <<"0", ".", "4", "%">>

tTime == <<"1", "5", ":", "0", "0">>

ReqCodes == {c7203T, c7203, cUSDJPY, cDJI}

tPrice150 == <<"1", "5", "0">>

tPrice38 == <<"3", "8">>

\* The price text schema i's object holds: a different one for each schema.
BoardPrice(i) == CASE i = 1 -> tPrice [] i = 2 -> tPrice150 [] i = 3 -> tPrice38

\* The matched object of schema i, with `code` (<<value>> or <<>>) under the
\* schema's code key and the five fields under its physical keys.
Board(i, code) ==
    LET m == get_data_sources[i].mappings
        fields == (m.name :> JStr(tToyota)) @@ (m.price :> JStr(BoardPrice(i)))
                  @@ (m.price_change :> JStr(tChange))
                  @@ (m.price_change_rate :> JStr(tRate))
                  @@ (m.update_time :> JStr(tTime))
    IN  IF code = <<>> THEN fields ELSE (m.code :> code[1]) @@ fields

\* An object of schema i with the code, the name and a price written as a bare
\* number, and without the keys of the change, the rate and the time.
PartialBoard(i, code) ==
    LET m == get_data_sources[i].mappings
    IN  (m.code :> code[1]) @@ (m.name :> JStr(tToyota)) @@ (m.price :> JNum(<<"2", "5", "0", "0">>))

\* What the root holds for schema i: nothing, the object at the schema's path,
\* or an array holding the object there.
BoardPart(i, b) ==
    LET path == get_data_sources[i].path
    IN  CASE b.kind = "absent" -> <<>>
          [] b.kind = "obj" -> path[1] :> JObj(path[2] :> JObj(Board(i, b.code)))
          [] b.kind = "partial" -> path[1] :> JObj(path[2] :> JObj(PartialBoard(i, b.code)))
          [] b.kind = "arr" -> path[1] :> JObj(path[2] :> JArr(<<JObj(Board(i, b.code))>>))

Absent == [kind |-> "absent", code |-> <<>>]

BoardChoices(i) ==
    CASE i = 1 -> {Absent, [kind |-> "arr", code |-> <<JStr(c7203)>>],
                   [kind |-> "partial", code |-> <<JStr(c7203)>>]}
                  \cup {[kind |-> "obj", code |-> c] :
                          c \in {<<JStr(c7203)>>, <<JStr(c7203T)>>, <<JStr(c7203sp)>>,
                                 <<JNum(c7203)>>, <<>>}}
      [] i = 2 -> {Absent} \cup {[kind |-> "obj", code |-> <<JStr(c)>>] : c \in {cUSDJPY, c7203}}
      [] i = 3 -> {Absent} \cup {[kind |-> "obj", code |-> <<JStr(c)>>] : c \in {cDJI, c7203T, c7203}}

\* An object outside every schema path: under "other", or inside the array "items".
ExtraPart(x) ==
    LET full == [code |-> JStr(c7203), name |-> JStr(tToyota), price |-> JStr(tPrice)]
        bare == [code |-> JStr(c7203), price |-> JNum(<<"2", "5", "0", "0">>)]
    IN  CASE x = "none" -> <<>>
          [] x = "other" -> "other" :> JObj(full)
          [] x = "bare" -> "other" :> JObj(bare)
          [] x = "items" -> "items" :> JArr(<<JObj(full)>>)

ExtraChoices == {"none", "other", "bare", "items"}

Tree(b1, b2, b3, x) ==
    JObj(BoardPart(1, b1) @@ BoardPart(2, b2) @@ BoardPart(3, b3) @@ ExtraPart(x))

Trees ==
    {Tree(b1, b2, b3, x) : b1 \in BoardChoices(1), b2 \in BoardChoices(2),
                           b3 \in BoardChoices(3), x \in ExtraChoices}

Elem(tag, cls, anc, text) == [tag |-> tag, cls |-> cls, anc |-> anc, text |-> text]

eName == Elem("h1", {}, {}, <<" ">> \o tToyota \o <<" ">>)

eNameEmpty == Elem("h1", {}, {}, <<" ">>)

ePrice == Elem("span", {M_VALUE}, {<<"div", M_PRICE_BLOCK>>}, tPrice)

eChange == Elem("span", {M_VALUE}, {<<"span", M_PRIMARY>>}, tChange)

eRate == Elem("span", {M_VALUE}, {<<"span", M_SECONDARY>>}, tRate)

eTime == Elem("span", {M_TIME}, {}, tTime)

eTimestamp == Elem("time", {M_TIMESTAMP}, {<<"li", M_BOARD_TIME>>}, tTime)

eOther == Elem("div", {}, {}, <<"x">>)

ElemPool == {eName, eNameEmpty, ePrice, eChange, eRate, eTime, eTimestamp, eOther}

SeqsUpTo(S, n) == UNION {[1..k -> S] : k \in 0..n}

Doms == SeqsUpTo(ElemPool, MaxElems)

FullDom == <<eName, ePrice>>

Page(fetch, block, tree, dom) == [fetch |-> fetch, block |-> block, tree |-> tree, dom |-> dom]

FailedPages == {Page("senderr", "none", JNull, <<>>), Page("texterr", "none", JNull, <<>>)}

\* The pages one pipeline is examined on.
Pages ==
    FailedPages
    \cup {Page("ok", "none", JNull, d) : d \in Doms}
    \cup {Page("ok", "bad", JNull, d) : d \in {<<>>, FullDom}}
    \cup {Page("ok", "ok", t, FullDom) : t \in Trees}

\* The pages a batch is examined on.
BatchPages ==
    {Page("senderr", "none", JNull, <<>>),
     Page("ok", "none", JNull, <<>>),
     Page("ok", "none", JNull, FullDom),
     Page("ok", "bad", JNull, FullDom),
     Page("ok", "ok", Tree([kind |-> "obj", code |-> <<JStr(c7203)>>], Absent, Absent, "none"),
          FullDom)}

RawParts == {c7203T, <<" ">> \o c7203, <<" ">>, <<>>, cDJI}

KeyChoices == {<<>>, <<DefaultKeys>>, << <<"code", "price">> >>}

\* The URLs the program requests for the argument.
Urls(p, arg) ==
    IF arg = <<>> THEN {}
    ELSE LET cs == IF p = "worker" THEN parse_codes(arg[1]) ELSE cli_codes(arg[1])
         IN  {url_for(cs[i]) : i \in 1..Len(cs)}

NoNorm == norm_in = <<>> /\ norm_strip = FALSE /\ norm_out = <<>> /\ norm_twice = <<>>

NoRank == rank_in = <<>> /\ rank_out = <<>> /\ rerank_out = <<>>

NoVerify ==
    verify_req = <<>> /\ verify_page = <<>> /\ verify_pc = "idle" /\ verify_response = <<>>

Idle == NoNorm /\ NoRank /\ rank_seed = 0 /\ NoVerify

Start ==
    /\ mainpc = "init" /\ codes = <<>> /\ pc = <<>> /\ results = <<>>
    /\ attempted = <<>> /\ fetched = <<>> /\ response = <<>> /\ dispatched = <<>>
    /\ discovered = <<>>

\* One code (or none), every page.
Init ==
    /\ prog \in {"worker", "cli"}
    /\ codes_str \in (IF prog = "worker" THEN {<<>>} ELSE {}) \cup {<<c>> : c \in ReqCodes \cup {<<>>}}
    /\ keys \in (IF prog = "worker" THEN KeyChoices ELSE {<<>>})
    /\ web \in [Urls(prog, codes_str) -> Pages]
    /\ Start /\ Idle

\* A list of up to MaxParts parts, a few pages.
InitBatch ==
    /\ prog \in {"worker", "cli"}
    /\ codes_str \in {<<Join(parts, ",")>> : parts \in SeqsUpTo(RawParts, MaxParts) \ {<<>>}}
    /\ keys = <<>>
    /\ web \in [Urls(prog, codes_str) -> BatchPages]
    /\ Start /\ Idle

(***************************************************************************)
(* The worker: main, and fetch_single_code once per code under join_all.   *)
(***************************************************************************)
Response(status, body) == [status |-> status, body |-> body]

Spawn(cs) ==
    /\ codes' = cs
    /\ pc' = [i \in 1..Len(cs) |-> "send"]
    /\ results' = [i \in 1..Len(cs) |-> <<>>]
    /\ attempted' = [i \in 1..Len(cs) |-> <<>>]
    /\ fetched' = [i \in 1..Len(cs) |-> <<>>]
    /\ dispatched' = [i \in 1..Len(cs) |-> <<>>]
    /\ discovered' = [i \in 1..Len(cs) |-> <<>>]
    /\ mainpc' = "running"
    /\ response' = response

Reject ==
    /\ response' = <<Response("400", <<>>)>>
    /\ mainpc' = "rejected"
    /\ UNCHANGED <<codes, pc, results, attempted, fetched, dispatched, discovered>>

\* lib.rs:30-57
WorkerMain ==
    /\ prog = "worker" /\ mainpc = "init"
    /\ IF codes_str = <<>> THEN Reject
       ELSE LET cs == parse_codes(codes_str[1])
            IN  IF cs = <<>> THEN Reject ELSE Spawn(cs)
    /\ UNCHANGED <<prog, codes_str, keys, web, norm_vars, rank_vars, verify_vars>>

\* A result slot shared by the pipelines: the result is written for every code.
FinishShared(i, result, tried) ==
    /\ results' = [j \in DOMAIN results |-> <<result>>]
    /\ attempted' = [attempted EXCEPT ![i] = tried]
    /\ pc' = [pc EXCEPT ![i] = "done"]

Finish(i, result, tried) ==
    /\ results' = [results EXCEPT ![i] = <<result>>]
    /\ attempted' = [attempted EXCEPT ![i] = tried]
    /\ pc' = [pc EXCEPT ![i] = "done"]

\* lib.rs:65-71,76: the request is sent; a failure ends the pipeline.
WorkerSend(i) ==
    /\ prog = "worker" /\ mainpc = "running" /\ pc[i] = "send"
    /\ LET url == url_for(codes[i])
       IN  /\ fetched' = [fetched EXCEPT ![i] = Append(@, url)]
           /\ IF web[url].fetch = "senderr"
              THEN Finish(i, CodeResult(codes[i], <<>>, <<E_FETCH>>), <<>>)
              ELSE /\ pc' = [pc EXCEPT ![i] = "text"]
                   /\ UNCHANGED <<results, attempted>>
    /\ UNCHANGED <<prog, codes_str, keys, web, mainpc, codes, response, dispatched, discovered, norm_vars, rank_vars, verify_vars>>

\* lib.rs:72-104: the body is read and the strategies run.
WorkerText(i) ==
    /\ prog = "worker" /\ mainpc = "running" /\ pc[i] = "text"
    /\ LET page == web[url_for(codes[i])]
       IN  IF page.fetch = "texterr"
           THEN Finish(i, CodeResult(codes[i], <<>>, <<E_TEXT>>), <<>>)
           ELSE LET r == extract(codes[i], page, keys)
                IN  Finish(i, to_code_result(codes[i], r), r.tried)
    /\ UNCHANGED <<prog, codes_str, keys, web, mainpc, codes, fetched, response, dispatched, discovered, norm_vars, rank_vars, verify_vars>>

\* lib.rs:58-60: join_all has every result; they are emitted in input order.
WorkerRespond ==
    /\ prog = "worker" /\ mainpc = "running"
    /\ \A i \in 1..Len(codes) : pc[i] = "done"
    /\ response' = <<Response("200", [i \in 1..Len(codes) |-> results[i][1]])>>
    /\ mainpc' = "responded"
    /\ UNCHANGED <<prog, codes_str, keys, web, codes, pc, results, attempted, fetched, dispatched, discovered, norm_vars, rank_vars, verify_vars>>

(***************************************************************************)
(* The command-line extractor: one code after another.                     *)
(***************************************************************************)
\* yf_quote.rs:89-91
CliMain ==
    /\ prog = "cli" /\ mainpc = "init" /\ codes_str # <<>>
    /\ Spawn(cli_codes(codes_str[1]))
    /\ UNCHANGED <<prog, codes_str, keys, web, norm_vars, rank_vars, verify_vars>>

Printed == SelectSeq([i \in 1..Len(codes) |-> results[i]], LAMBDA r : r # <<>>)

\* yf_quote.rs:130-265: one iteration of the loop, for the first code not yet
\* visited.  An empty code is passed over; a failed fetch returns from main.
CliStep(i) ==
    /\ prog = "cli" /\ mainpc = "running" /\ pc[i] = "send"
    /\ \A j \in 1..(i - 1) : pc[j] # "send"
    /\ IF codes[i] = <<>>
       THEN /\ pc' = [pc EXCEPT ![i] = "skipped"]
            /\ UNCHANGED <<results, attempted, fetched, mainpc, response>>
       ELSE LET url == url_for(codes[i])
                page == web[url]
            IN  /\ fetched' = [fetched EXCEPT ![i] = Append(@, url)]
                /\ IF page.fetch # "ok"
                   THEN /\ pc' = [pc EXCEPT ![i] = "failed"]
                        /\ mainpc' = "aborted"
                        /\ response' = <<Response("exit1", [k \in 1..Len(Printed) |-> Printed[k][1]])>>
                        /\ UNCHANGED <<results, attempted>>
                   ELSE LET r == cli_extract(codes[i], page)
                        IN  /\ Finish(i, to_code_result(codes[i], r), r.tried)
                            /\ UNCHANGED <<mainpc, response>>
    /\ UNCHANGED <<prog, codes_str, keys, web, codes, dispatched, discovered, norm_vars, rank_vars, verify_vars>>

\* yf_quote.rs:267
CliExit ==
    /\ prog = "cli" /\ mainpc = "running"
    /\ \A i \in 1..Len(codes) : pc[i] \in {"done", "skipped"}
    /\ response' = <<Response("exit0", [k \in 1..Len(Printed) |-> Printed[k][1]])>>
    /\ mainpc' = "responded"
    /\ UNCHANGED <<prog, codes_str, keys, web, codes, pc, results, attempted, fetched, dispatched, discovered, norm_vars, rank_vars, verify_vars>>

Next ==
    \/ WorkerMain
    \/ \E i \in 1..Len(codes) : WorkerSend(i)
    \/ \E i \in 1..Len(codes) : WorkerText(i)
    \/ WorkerRespond
    \/ CliMain
    \/ \E i \in 1..Len(codes) : CliStep(i)
    \/ CliExit

Spec == Init /\ [][Next]_vars

SpecBatch == InitBatch /\ [][Next]_vars

(***************************************************************************)
(* Code normalization on its own: the comparison key of lib.rs:116-120     *)
(* applied to a requested code, and applied again to its own result.       *)
(***************************************************************************)
NormAlphabet == {"7", ".", "T", " "}

NormInputs == SeqsUpTo(NormAlphabet, MaxNormLen) \cup ReqCodes

InitNorm ==
    /\ prog = "norm" /\ codes_str = <<>> /\ keys = <<>> /\ web = <<>> /\ Start
    /\ norm_in \in NormInputs /\ norm_strip \in BOOLEAN
    /\ norm_out = <<>> /\ norm_twice = <<>>
    /\ NoRank /\ rank_seed = 0 /\ NoVerify

Normalize ==
    /\ norm_out = <<>>
    /\ norm_out' = <<code_to_compare(norm_in, norm_strip)>>
    /\ UNCHANGED <<pipeline_vars, rank_vars, verify_vars, norm_in, norm_strip, norm_twice>>

NormalizeAgain ==
    /\ norm_out # <<>> /\ norm_twice = <<>>
    /\ norm_twice' = <<code_to_compare(norm_out[1], norm_strip)>>
    /\ UNCHANGED <<pipeline_vars, rank_vars, verify_vars, norm_in, norm_strip, norm_out>>

NextNorm == Normalize \/ NormalizeAgain

SpecNorm == InitNorm /\ [][NextNorm]_vars

(***************************************************************************)
(* Ranking of candidates: deduplicate_and_sort_candidates of selector.rs.  *)
(***************************************************************************)
RankedCandidate(text, score, reason) == [text |-> text, score |-> score, reason |-> reason]

\* The printable ASCII characters in byte order, from the space (byte 32); the
\* grave accent (byte 96) has a place and no use.
Ascii ==
    <<" ", "!", Q, "#", "$", "%", "&", "'", "(", ")", "*", "+", ",", "-",
      ".", "/", "0", "1", "2", "3", "4", "5", "6", "7", "8", "9", ":", ";",
      "<", "=", ">", "?", "@", "A", "B", "C", "D", "E", "F", "G", "H", "I",
      "J", "K", "L", "M", "N", "O", "P", "Q", "R", "S", "T", "U", "V", "W",
      "X", "Y", "Z", "[", BSL, "]", "^", "_", "(96)", "a", "b", "c", "d", "e",
      "f", "g", "h", "i", "j", "k", "l", "m", "n", "o", "p", "q", "r", "s",
      "t", "u", "v", "w", "x", "y", "z", "{", "|", "}", "~">>

\* The first byte of a character; a character outside ASCII starts with a byte
\* above every ASCII byte.
Byte(c) ==
    IF \E n \in 1..Len(Ascii) : Ascii[n] = c
    THEN (CHOOSE n \in 1..Len(Ascii) : Ascii[n] = c) + 31
    ELSE 224

\* a.text.cmp(&b.text) = Less: the byte-wise lexicographic order of String.
RECURSIVE text_less(_, _)
text_less(a, b) ==
    IF b = <<>> THEN FALSE
    ELSE IF a = <<>> THEN TRUE
    ELSE IF Head(a) = Head(b) THEN text_less(Tail(a), Tail(b))
    ELSE Byte(Head(a)) < Byte(Head(b))

\* A map that merges nothing: every candidate gets an entry of its own.
entry_insert_always(map, candidate) == Append(map, candidate)

\* An entry that keeps the candidate inserted first for a text.
entry_insert_keep_first(map, candidate) ==
    IF \E k \in 1..Len(map) : map[k].text = candidate.text THEN map ELSE Append(map, candidate)

\* map.entry(text).and_modify(keep the higher score).or_insert(candidate); the
\* entries are held here in insertion order.
entry_insert(map, candidate) ==
    IF \E k \in 1..Len(map) : map[k].text = candidate.text
    THEN [k \in 1..Len(map) |->
            IF map[k].text = candidate.text /\ candidate.score > map[k].score
            THEN candidate ELSE map[k]]
    ELSE Append(map, candidate)

\* The loop of selector.rs:64-72.
RECURSIVE build_map(_, _)
build_map(candidates, map) ==
    IF candidates = <<>> THEN map
    ELSE build_map(Tail(candidates), entry_insert(map, Head(candidates)))

Remove(s, k) == SubSeq(s, 1, k - 1) \o SubSeq(s, k + 1, Len(s))

\* The arrangement of s that the number n selects; n below Len(s)! selects
\* each arrangement once.
RECURSIVE Permute(_, _)
Permute(s, n) ==
    IF s = <<>> THEN <<>>
    ELSE LET k == (n % Len(s)) + 1
         IN  <<s[k]>> \o Permute(Remove(s, k), n \div Len(s))

\* map.into_values(): the values in the hash map's iteration order, which the
\* seed of the run decides.
into_values(map, seed) == Permute(map, seed)

\* A comparator on the score alone.
sorts_before_by_score(a, b) == a.score > b.score

\* The comparator of selector.rs:74 gives Less: higher score first, then the
\* lesser text.
sorts_before(a, b) == a.score > b.score \/ (a.score = b.score /\ text_less(a.text, b.text))

\* Vec::sort_by, a stable sort: each element goes before the first one it
\* sorts before.
insert_sorted(sorted, c) ==
    LET later == {j \in 1..Len(sorted) : sorts_before(c, sorted[j])}
        k == IF later = {} THEN Len(sorted) + 1 ELSE Min(later)
    IN  SubSeq(sorted, 1, k - 1) \o <<c>> \o SubSeq(sorted, k, Len(sorted))

RECURSIVE sort_by(_, _)
sort_by(rest, sorted) ==
    IF rest = <<>> THEN sorted ELSE sort_by(Tail(rest), insert_sorted(sorted, Head(rest)))

\* The values of the map left in iteration order, without the sort.
deduplicate_unsorted(candidates, seed) == into_values(build_map(candidates, <<>>), seed)

deduplicate_and_sort_candidates(candidates, seed) ==
    sort_by(into_values(build_map(candidates, <<>>), seed), <<>>)

t25 == <<"2", "5">>

t250 == <<"2", "5", "0">>

t3 == <<"3">>

sFallback == 10

sPattern == 50

\* Candidates as the scans collect them: three texts, two scores, and two of
\* them a second time with another reason.
CandPool ==
    {RankedCandidate(text, score, "a") : text \in {t25, t250, t3}, score \in {sFallback, sPattern}}
    \cup {RankedCandidate(t25, sPattern, "b"), RankedCandidate(t3, sFallback, "b")}

InitRank ==
    /\ prog = "rank" /\ codes_str = <<>> /\ keys = <<>> /\ web = <<>> /\ Start /\ NoNorm
    /\ NoVerify
    /\ rank_in \in SeqsUpTo(CandPool, MaxCands)
    /\ rank_seed \in 0..MaxSeed
    /\ rank_out = <<>> /\ rerank_out = <<>>

\* One run on the collected candidates.
RankOnce ==
    /\ prog = "rank" /\ rank_out = <<>>
    /\ rank_out' = <<deduplicate_and_sort_candidates(rank_in, rank_seed)>>
    /\ UNCHANGED <<pipeline_vars, norm_vars, verify_vars, rank_in, rank_seed, rerank_out>>

\* A second run, on the same candidates collected in another order.
Reorder(p) ==
    /\ prog = "rank" /\ rank_out # <<>> /\ rerank_out = <<>>
    /\ rerank_out' = <<[run |-> "reordered",
                      ranked |-> deduplicate_and_sort_candidates(Permute(rank_in, p), rank_seed)]>>
    /\ UNCHANGED <<pipeline_vars, norm_vars, verify_vars, rank_in, rank_seed, rank_out>>

\* A second run, on the same candidates with another iteration order of the map.
Rehash(q) ==
    /\ prog = "rank" /\ rank_out # <<>> /\ rerank_out = <<>>
    /\ rerank_out' = <<[run |-> "rehashed",
                      ranked |-> deduplicate_and_sort_candidates(rank_in, q)]>>
    /\ UNCHANGED <<pipeline_vars, norm_vars, verify_vars, rank_in, rank_seed, rank_out>>

NextRank ==
    \/ RankOnce
    \/ \E p \in 0..MaxSeed : Reorder(p)
    \/ \E q \in 0..MaxSeed : Rehash(q)

SpecRank == InitRank /\ [][NextRank]_vars


(***************************************************************************)
(* Candidate discovery of selector.rs: documents, selectors, text tests.   *)
(***************************************************************************)
\* s.contains(sub)
HasSub(s, sub) == \E k \in 0..(Len(s) - Len(sub)) : SubSeq(s, k + 1, k + Len(sub)) = sub

\* s.split(sep).next().unwrap_or(""): the part before the first sep.
first_part(s, sep) ==
    LET at == {k \in 0..(Len(s) - Len(sep)) : SubSeq(s, k + 1, k + Len(sep)) = sep}
    IN  IF at = {} THEN s ELSE SubSeq(s, 1, Min(at))

\* text.replace(",", "")
remove_commas(s) == SelectSeq(s, LAMBDA c : c # ",")

Digits == {"0", "1", "2", "3", "4", "5", "6", "7", "8", "9"}

\* text.chars().any(|c| c.is_ascii_digit())
any_digit(s) == \E k \in 1..Len(s) : s[k] \in Digits

starts_with_sign(s) == s # <<>> /\ s[1] \in {"+", "-"}

\* A run of ASCII digits, possibly empty.
AllDigits(s) == \A k \in 1..Len(s) : s[k] \in Digits

lower(c) ==
    CASE c = "I" -> "i" [] c = "N" -> "n" [] c = "F" -> "f" [] c = "T" -> "t"
      [] c = "Y" -> "y" [] c = "A" -> "a" [] OTHER -> c

SEP_DASH == <<" ", "-", " ">>

T_INF == <<"i", "n", "f">>

T_INFINITY == <<"i", "n", "f", "i", "n", "i", "t", "y">>

T_NAN == <<"n", "a", "n">>

\* The decimal part of an f64 literal: digits with at most one '.', at least one
\* digit, then an optional exponent e/E with an optional sign and digits.
IsDecimal(s) ==
    LET es == {k \in 1..Len(s) : s[k] \in {"e", "E"}}
        mant == IF es = {} THEN s ELSE SubSeq(s, 1, Min(es) - 1)
        exp == IF es = {} THEN <<>> ELSE SubSeq(s, Min(es) + 1, Len(s))
        expd == IF starts_with_sign(exp) THEN Tail(exp) ELSE exp
        dots == {k \in 1..Len(mant) : mant[k] = "."}
    IN  /\ Cardinality(dots) <= 1
        /\ AllDigits(SelectSeq(mant, LAMBDA c : c # "."))
        /\ any_digit(mant)
        /\ es # {} => (expd # <<>> /\ AllDigits(expd))

\* text.parse::<f64>(): <<>> for Err, else <<"nan">>, <<"neg">> (a value below
\* zero) or <<"nonneg">> (a value that is >= 0.0, the negative zero included).
\* The exponent is read but its size is not: a mantissa with a non-zero digit
\* counts as a non-zero value.
parse_f64(s) ==
    LET body == IF starts_with_sign(s) THEN Tail(s) ELSE s
        low == [k \in 1..Len(body) |-> lower(body[k])]
        es == {k \in 1..Len(body) : body[k] \in {"e", "E"}}
        mant == IF es = {} THEN body ELSE SubSeq(body, 1, Min(es) - 1)
        zero == \A k \in 1..Len(mant) : mant[k] \in {"0", "."}
    IN  IF low = T_NAN THEN <<"nan">>
        ELSE IF low \in {T_INF, T_INFINITY}
             THEN IF s[1] = "-" THEN <<"neg">> ELSE <<"nonneg">>
        ELSE IF ~IsDecimal(body) THEN <<>>
        ELSE IF s[1] = "-" /\ ~zero THEN <<"neg">> ELSE <<"nonneg">>

\* if let Ok(p) = cleaned.parse::<f64>() { if p >= 0.0
parses_non_negative(s) == parse_f64(s) = <<"nonneg">>

K_PriceBoard__price == <<"P", "r", "i", "c", "e", "B", "o", "a", "r", "d", "_", "_", "p", "r", "i", "c", "e">>

K_StyledNumber__value == <<"S", "t", "y", "l", "e", "d", "N", "u", "m", "b", "e", "r", "_", "_", "v", "a", "l", "u", "e">>

K_price == <<"p", "r", "i", "c", "e">>

K_Price == <<"P", "r", "i", "c", "e">>

K_value == <<"v", "a", "l", "u", "e">>

K_board == <<"b", "o", "a", "r", "d">>

K_Board == <<"B", "o", "a", "r", "d">>

K_quote == <<"q", "u", "o", "t", "e">>

K_Quote == <<"Q", "u", "o", "t", "e">>

K_last == <<"l", "a", "s", "t">>

K_current == <<"c", "u", "r", "r", "e", "n", "t">>

K_Current == <<"C", "u", "r", "r", "e", "n", "t">>

K_PriceChangeLabel__primary == <<"P", "r", "i", "c", "e", "C", "h", "a", "n", "g", "e", "L", "a", "b", "e", "l", "_", "_", "p", "r", "i", "m", "a", "r", "y">>

K_change == <<"c", "h", "a", "n", "g", "e">>

K_percent == <<"p", "e", "r", "c", "e", "n", "t">>

K_PriceBoard__times == <<"P", "r", "i", "c", "e", "B", "o", "a", "r", "d", "_", "_", "t", "i", "m", "e", "s">>

K_timestamp == <<"t", "i", "m", "e", "s", "t", "a", "m", "p">>

K__CommonPriceBoard__priceBlock == <<"_", "C", "o", "m", "m", "o", "n", "P", "r", "i", "c", "e", "B", "o", "a", "r", "d", "_", "_", "p", "r", "i", "c", "e", "B", "l", "o", "c", "k">>

K__StyledNumber__value == <<"_", "S", "t", "y", "l", "e", "d", "N", "u", "m", "b", "e", "r", "_", "_", "v", "a", "l", "u", "e">>

K__BasePriceBoard__priceInformation == <<"_", "B", "a", "s", "e", "P", "r", "i", "c", "e", "B", "o", "a", "r", "d", "_", "_", "p", "r", "i", "c", "e", "I", "n", "f", "o", "r", "m", "a", "t", "i", "o", "n">>

K__PriceChangeLabel__primary == <<"_", "P", "r", "i", "c", "e", "C", "h", "a", "n", "g", "e", "L", "a", "b", "e", "l", "_", "_", "p", "r", "i", "m", "a", "r", "y">>

K__PriceChangeLabel__secondary == <<"_", "P", "r", "i", "c", "e", "C", "h", "a", "n", "g", "e", "L", "a", "b", "e", "l", "_", "_", "s", "e", "c", "o", "n", "d", "a", "r", "y">>

K__Time == <<"_", "T", "i", "m", "e">>

K_rate == <<"r", "a", "t", "e">>

K_time == <<"t", "i", "m", "e">>

K_diff == <<"d", "i", "f", "f">>

K_gain == <<"g", "a", "i", "n">>

K_loss == <<"l", "o", "s", "s">>

K_up == <<"u", "p">>

K_down == <<"d", "o", "w", "n">>

K_large == <<"l", "a", "r", "g", "e">>

K_code == <<"c", "o", "d", "e">>

K_symbol == <<"s", "y", "m", "b", "o", "l">>

K_regularMarketPrice == <<"r", "e", "g", "u", "l", "a", "r", "M", "a", "r", "k", "e", "t", "P", "r", "i", "c", "e">>

\* An element of the document: its tag, its class attribute ("" when it has
\* none), its data-field attribute, the (tag, class) of each of its ancestors,
\* and its text content, that of its descendants included.
SElem(tag, class, anc, text) ==
    [tag |-> tag, class |-> class, field |-> <<>>, anc |-> anc, text |-> text]

Anc(tag, class) == [tag |-> tag, class |-> class]

\* [class*='sub']
class_has(e, sub) == HasSub(e.class, sub)

\* An ancestor of e matches tag[class*='sub']; the tag "*" stands for any tag.
under(e, tag, sub) ==
    \E a \in e.anc : (tag = "*" \/ a.tag = tag) /\ HasSub(a.class, sub)


RECURSIVE Flatten(_)
Flatten(lists) == IF lists = <<>> THEN <<>> ELSE Head(lists) \o Flatten(Tail(lists))

DiscoveredData(code, url, names, prices, change_abs, change_pct, times) ==
    [code |-> code, url |-> url, name_candidates |-> names, price_candidates |-> prices,
     change_abs_candidates |-> change_abs, change_pct_candidates |-> change_pct,
     update_time_candidates |-> times]

\* format!("https://finance.yahoo.co.jp/quote/{}", code): the path requested.
sel_url(code) == code

(***************************************************************************)
(* discover_data: the equity scan.                                         *)
(***************************************************************************)
\* The characters U+3010, "(" and U+FF1A at which the title is cut; a character
\* outside ASCII is written by its code point.
C_LBRACKET == "U+3010"

C_LPAREN == "("

C_COLON == "U+FF1A"

\* The first <title> of the document: <<its text>> or <<>>.
title_text(dom) ==
    LET at == {k \in 1..Len(dom) : dom[k].tag = "title"}
    IN  IF at = {} THEN <<>> ELSE <<dom[Min(at)].text>>

\* selector.rs:93-96
base_name_of(title) ==
    Trim(first_part(first_part(first_part(title, <<C_LBRACKET>>), <<C_LPAREN>>), <<C_COLON>>))

\* selector.rs:121-129: what one h1/h2 element adds to the names.
heading_candidate(e, base_name) ==
    LET text == Trim(e.text)
    IN  IF text = <<>> THEN <<>>
        ELSE IF text = base_name
             THEN <<RankedCandidate(text, 110, <<"Exact match in", e.tag>>)>>
        ELSE IF HasSub(text, base_name)
             THEN <<RankedCandidate(text, 100, <<"Contains base name in", e.tag>>)>>
        ELSE <<>>

\* selector.rs:89-131
equity_names(dom) ==
    LET title == title_text(dom)
        base_name == IF title = <<>> THEN <<>> ELSE base_name_of(title[1])
    IN  IF base_name = <<>> THEN <<>>
        ELSE <<RankedCandidate(title[1], 50, <<"Original <title> text">>)>>
             \o Flatten([k \in 1..Len(dom) |->
                          IF dom[k].tag \in {"h1", "h2"}
                          THEN heading_candidate(dom[k], base_name) ELSE <<>>])

\* The patterns of selector.rs:134-143, in the order tried.
price_pattern(n, e) ==
    CASE n = 1 -> /\ e.tag = "span" /\ class_has(e, K_StyledNumber__value)
                  /\ under(e, "span", K_PriceBoard__price)
      [] n = 2 -> class_has(e, K_price) \/ class_has(e, K_Price)
      [] n = 3 -> e.tag \in {"span", "div"} /\ class_has(e, K_value)
      [] n = 4 -> e.tag = "span" /\ (under(e, "*", K_board) \/ under(e, "*", K_Board))
      [] n = 5 -> e.field = <<K_regularMarketPrice>>
      [] n = 6 -> class_has(e, K_quote) \/ class_has(e, K_Quote)
      [] n = 7 -> e.tag \in {"span", "div"} /\ class_has(e, K_last)
      [] n = 8 -> class_has(e, K_current) \/ class_has(e, K_Current)

NumPricePatterns == 8

\* selector.rs:152-161: the score of a price candidate of pattern n.
price_score(n, e, text) ==
    LET s0 == sPattern
        s1 == IF n = 1 THEN s0 + 100 ELSE s0
        s2 == IF "," \in Range(text) THEN s1 + 30 ELSE s1
        s3 == IF class_has(e, K_value) THEN s2 + 20 ELSE s2
        s4 == IF class_has(e, K_large) THEN s3 + 10 ELSE s3
    IN  IF class_has(e, K_code) \/ class_has(e, K_symbol) THEN s4 - 40 ELSE s4

\* selector.rs:146-166: what an element matched by pattern n adds to the prices.
price_candidate(n, e) ==
    LET text == Trim(e.text)
    IN  IF any_digit(text) /\ parses_non_negative(remove_commas(text))
        THEN <<RankedCandidate(text, price_score(n, e, text), <<"pattern", n, e.class>>)>>
        ELSE <<>>

\* selector.rs:186-196: what a span or div adds in the fallback.
price_fallback_candidate(e) ==
    LET text == Trim(e.text)
    IN  IF any_digit(text) /\ parses_non_negative(remove_commas(text))
        THEN <<RankedCandidate(text, sFallback, <<"Fallback", e.tag>>)>>
        ELSE <<>>

\* selector.rs:134-200
equity_prices(dom) ==
    LET dedicated ==
            Flatten([n \in 1..NumPricePatterns |->
                Flatten([k \in 1..Len(dom) |->
                    IF price_pattern(n, dom[k]) THEN price_candidate(n, dom[k]) ELSE <<>>])])
    IN  IF dedicated # <<>> THEN dedicated
        ELSE Flatten([k \in 1..Len(dom) |->
                 IF dom[k].tag \in {"span", "div"}
                 THEN price_fallback_candidate(dom[k]) ELSE <<>>])

\* selector.rs:202-207
equity_change_abs(dom) ==
    Flatten([k \in 1..Len(dom) |->
        LET text == Trim(dom[k].text)
        IN  IF /\ class_has(dom[k], K_PriceChangeLabel__primary)
               /\ starts_with_sign(text) /\ any_digit(text)
            THEN <<RankedCandidate(text, 100, <<"primary change label">>)>> ELSE <<>>])

\* selector.rs:202-212: the rate read in the primary change label.
equity_change_pct_primary(dom) ==
    Flatten([k \in 1..Len(dom) |->
        LET text == Trim(dom[k].text)
        IN  IF /\ class_has(dom[k], K_PriceChangeLabel__primary)
               /\ "%" \in Range(text) /\ "(" \in Range(text)
            THEN <<RankedCandidate(text, 100, <<"secondary change label">>)>> ELSE <<>>])

\* The patterns of selector.rs:217-222.
pct_pattern(n, e) ==
    CASE n = 1 -> class_has(e, K_change)
      [] n = 2 -> class_has(e, K_percent)
      [] n = 3 -> e.tag = "span"
      [] n = 4 -> e.tag = "div"

NumPctPatterns == 4

\* selector.rs:215-236
equity_change_pct(dom) ==
    LET primary == equity_change_pct_primary(dom)
    IN  IF primary # <<>> THEN primary
        ELSE Flatten([n \in 1..NumPctPatterns |->
                 Flatten([k \in 1..Len(dom) |->
                     LET text == Trim(dom[k].text)
                     IN  IF /\ pct_pattern(n, dom[k])
                            /\ "%" \in Range(text)
                            /\ (starts_with_sign(text) \/ any_digit(text))
                         THEN <<RankedCandidate(text, 50, <<"Broader fallback", n>>)>>
                         ELSE <<>>])])

\* The patterns of selector.rs:240.
time_pattern(n, e) ==
    CASE n = 1 -> e.tag = "time" /\ under(e, "ul", K_PriceBoard__times)
      [] n = 2 -> e.tag = "time" /\ class_has(e, K_timestamp)

NumTimePatterns == 2

\* selector.rs:239-249
equity_times(dom) ==
    Flatten([n \in 1..NumTimePatterns |->
        Flatten([k \in 1..Len(dom) |->
            LET text == Trim(dom[k].text)
            IN  IF time_pattern(n, dom[k]) /\ text # <<>>
                THEN <<RankedCandidate(text, 100, <<"time element", n>>)>> ELSE <<>>])])

\* discover_data, after the fetch: selector.rs:84-265.
discover_data(code, page, seed) ==
    DiscoveredData(code, sel_url(code),
        deduplicate_and_sort_candidates(equity_names(page.dom), seed),
        deduplicate_and_sort_candidates(equity_prices(page.dom), seed),
        deduplicate_and_sort_candidates(equity_change_abs(page.dom), seed),
        deduplicate_and_sort_candidates(equity_change_pct(page.dom), seed),
        deduplicate_and_sort_candidates(equity_times(page.dom), seed))


(***************************************************************************)
(* discover_index_data: the index scan.                                    *)
(***************************************************************************)
\* s.trim_matches(|c| c in S)
RECURSIVE TrimStartIn(_, _)
TrimStartIn(s, S) == IF s # <<>> /\ Head(s) \in S THEN TrimStartIn(Tail(s), S) ELSE s

RECURSIVE TrimEndIn(_, _)
TrimEndIn(s, S) ==
    IF s # <<>> /\ s[Len(s)] \in S THEN TrimEndIn(SubSeq(s, 1, Len(s) - 1), S) ELSE s

TrimIn(s, S) == TrimEndIn(TrimStartIn(s, S), S)

\* value.get(key): <<member>> when value is an object with the key, else <<>>.
json_get(value, key) ==
    IF value.t = "obj" /\ key \in DOMAIN value.o THEN <<value.o[key]>> ELSE <<>>

\* .and_then(|v| v.as_str())
as_str(got) == IF got # <<>> /\ got[1].t = "str" THEN <<got[1].s>> ELSE <<>>

\* The tree of the block when the page has one that parses, else nothing
\* (selector.rs:281-285: a block that does not parse is passed over).
index_json(page) == IF page.block = "ok" THEN <<page.tree>> ELSE <<>>

\* selector.rs:287-293
index_json_names(json) ==
    LET title == IF json = <<>> THEN <<>>
                 ELSE as_str(<<Index(Index(json[1], "pageInfo"), "title")>>)
        cleaned == IF title = <<>> THEN <<>> ELSE Trim(first_part(title[1], SEP_DASH))
    IN  IF cleaned # <<>>
        THEN <<RankedCandidate(cleaned, 100, <<"__PRELOADED_STATE__", "title">>)>> ELSE <<>>

\* parsed_json.get("priceBoard"): <<the board>> or <<>>.
index_price_board(json) == IF json = <<>> THEN <<>> ELSE json_get(json[1], "priceBoard")

\* selector.rs:298-302
index_json_prices(board) ==
    LET v == IF board = <<>> THEN <<>> ELSE as_str(json_get(board[1], "price"))
    IN  IF v # <<>> THEN <<RankedCandidate(v[1], 100, <<"__PRELOADED_STATE__", "price">>)>>
        ELSE <<>>

\* selector.rs:304-313
index_json_change_abs(board) ==
    LET v == IF board = <<>> THEN <<>> ELSE as_str(json_get(board[1], "change"))
    IN  IF v # <<>> /\ v[1] # <<>>
        THEN <<RankedCandidate(v[1], 100, <<"__PRELOADED_STATE__", "change">>)>> ELSE <<>>

\* selector.rs:315-325
index_json_change_pct(board) ==
    LET v == IF board = <<>> THEN <<>> ELSE as_str(json_get(board[1], "changePercent"))
    IN  IF v # <<>> /\ v[1] # <<>>
        THEN <<RankedCandidate(TrimIn(v[1], {"(", ")"}), 100,
                               <<"__PRELOADED_STATE__", "changePercent">>)>>
        ELSE <<>>

\* selector.rs:327-332: marketTime when the board has the key, else tradeTime.
index_json_times(board) ==
    LET got == IF board = <<>> THEN <<>>
               ELSE IF json_get(board[1], "marketTime") # <<>>
                    THEN json_get(board[1], "marketTime")
                    ELSE json_get(board[1], "tradeTime")
        v == as_str(got)
    IN  IF v # <<>> /\ v[1] # <<>>
        THEN <<RankedCandidate(v[1], 100, <<"__PRELOADED_STATE__", "time">>)>> ELSE <<>>

\* selector.rs:339-361: the names from the title, then from the first h1.
index_dom_names(dom) ==
    LET title == title_text(dom)
        cleaned == IF title = <<>> THEN <<>> ELSE Trim(first_part(title[1], SEP_DASH))
        h1s == {k \in 1..Len(dom) : dom[k].tag = "h1"}
        h1_text == IF h1s = {} THEN <<>> ELSE Trim(dom[Min(h1s)].text)
    IN  IF cleaned # <<>> THEN <<RankedCandidate(cleaned, 80, <<"title">>)>>
        ELSE IF h1_text # <<>> THEN <<RankedCandidate(h1_text, 70, <<"h1">>)>>
        ELSE <<>>

\* div[class*='_CommonPriceBoard__priceBlock'] span[class*='_StyledNumber__value']
in_price_block(e) ==
    /\ e.tag = "span" /\ class_has(e, K__StyledNumber__value)
    /\ under(e, "div", K__CommonPriceBoard__priceBlock)

\* selector.rs:367-381
index_dom_prices_block(dom) ==
    Flatten([k \in 1..Len(dom) |->
        LET text == Trim(dom[k].text)
        IN  IF /\ in_price_block(dom[k])
               /\ ~starts_with_sign(text)
               /\ parses_non_negative(remove_commas(text))
            THEN <<RankedCandidate(text, 90, <<"_CommonPriceBoard__priceBlock">>)>>
            ELSE <<>>])

\* selector.rs:384-404
index_dom_prices_broader(dom) ==
    Flatten([k \in 1..Len(dom) |->
        LET text == Trim(dom[k].text)
        IN  IF /\ dom[k].tag \in {"span", "div"}
               /\ under(dom[k], "div", K__BasePriceBoard__priceInformation)
               /\ any_digit(text) /\ ~starts_with_sign(text) /\ "%" \notin Range(text)
               /\ parses_non_negative(remove_commas(text))
            THEN <<RankedCandidate(text, 70, <<"_BasePriceBoard__priceInformation", dom[k].tag>>)>>
            ELSE <<>>])

\* selector.rs:407-417
index_dom_change_abs(dom) ==
    Flatten([k \in 1..Len(dom) |->
        LET text == Trim(dom[k].text)
        IN  IF /\ dom[k].tag = "span" /\ class_has(dom[k], K__StyledNumber__value)
               /\ under(dom[k], "span", K__PriceChangeLabel__primary)
               /\ starts_with_sign(text)
            THEN <<RankedCandidate(text, 90, <<"_PriceChangeLabel__primary">>)>> ELSE <<>>])

\* selector.rs:420-430
index_dom_change_pct(dom) ==
    Flatten([k \in 1..Len(dom) |->
        LET text == Trim(dom[k].text)
        IN  IF /\ dom[k].tag = "span" /\ class_has(dom[k], K__StyledNumber__value)
               /\ under(dom[k], "span", K__PriceChangeLabel__secondary)
               /\ text # <<>>
            THEN <<RankedCandidate(text, 90, <<"_PriceChangeLabel__secondary">>)>> ELSE <<>>])

\* selector.rs:433-443
index_dom_times(dom) ==
    Flatten([k \in 1..Len(dom) |->
        LET text == Trim(dom[k].text)
        IN  IF /\ \/ dom[k].tag = "span" /\ class_has(dom[k], K__Time)
                  \/ dom[k].tag = "time" /\ class_has(dom[k], K_timestamp)
               /\ text # <<>>
            THEN <<RankedCandidate(text, 90, <<"DOM (fallback)">>)>> ELSE <<>>])

\* The five candidate lists of discover_index_data before the ranking:
\* selector.rs:274-444.
index_collected(page) ==
    LET json == index_json(page)
        board == index_price_board(json)
        names0 == index_json_names(json)
        prices0 == index_json_prices(board)
        abs0 == index_json_change_abs(board)
        pct0 == index_json_change_pct(board)
        times0 == index_json_times(board)
        widen == prices0 = <<>> \/ abs0 = <<>> \/ pct0 = <<>>
        prices1 == IF widen /\ prices0 = <<>> THEN index_dom_prices_block(page.dom) ELSE prices0
        prices2 == IF widen /\ prices1 = <<>> THEN index_dom_prices_broader(page.dom) ELSE prices1
    IN  [names |-> IF names0 = <<>> THEN index_dom_names(page.dom) ELSE names0,
         prices |-> prices2,
         change_abs |-> IF widen /\ abs0 = <<>> THEN index_dom_change_abs(page.dom) ELSE abs0,
         change_pct |-> IF widen /\ pct0 = <<>> THEN index_dom_change_pct(page.dom) ELSE pct0,
         times |-> IF widen /\ times0 = <<>> THEN index_dom_times(page.dom) ELSE times0]

\* discover_index_data, after the fetch: selector.rs:272-460.
discover_index_data(code, page, seed) ==
    LET c == index_collected(page)
    IN  DiscoveredData(code, sel_url(code),
            deduplicate_and_sort_candidates(c.names, seed),
            deduplicate_and_sort_candidates(c.prices, seed),
            deduplicate_and_sort_candidates(c.change_abs, seed),
            deduplicate_and_sort_candidates(c.change_pct, seed),
            deduplicate_and_sort_candidates(c.times, seed))


(***************************************************************************)
(* The currency scans and their merge.                                     *)
(***************************************************************************)
SUFFIX_X == <<"=", "X">>

SUFFIX_FX == <<"=", "F", "X">>

\* s.replace(from, to): every occurrence, left to right, without overlap.
RECURSIVE replace(_, _, _)
replace(s, from, to) ==
    IF Len(s) < Len(from) THEN s
    ELSE IF SubSeq(s, 1, Len(from)) = from
         THEN to \o replace(SubSeq(s, Len(from) + 1, Len(s)), from, to)
         ELSE <<Head(s)>> \o replace(Tail(s), from, to)

\* selector.rs:476-484 and :540-548: the name in the first h1.
currency_names(dom) ==
    LET h1s == {k \in 1..Len(dom) : dom[k].tag = "h1"}
        cleaned == IF h1s = {} THEN <<>> ELSE Trim(first_part(dom[Min(h1s)].text, SEP_DASH))
    IN  IF cleaned # <<>> THEN <<RankedCandidate(cleaned, 100, <<"h1">>)>> ELSE <<>>

\* selector.rs:487-500 and :551-559: div[class*='rate'] span, span[class*='price']
currency_prices(dom) ==
    Flatten([k \in 1..Len(dom) |->
        LET text == Trim(dom[k].text)
        IN  IF /\ dom[k].tag = "span"
               /\ (under(dom[k], "div", K_rate) \/ class_has(dom[k], K_price))
               /\ parse_f64(remove_commas(text)) # <<>> /\ text # <<>>
            THEN <<RankedCandidate(text, 90, <<"Guessed DOM selector for price">>)>>
            ELSE <<>>])

\* selector.rs:503-510: span[class*='time'], time
currency_times(dom) ==
    Flatten([k \in 1..Len(dom) |->
        LET text == Trim(dom[k].text)
        IN  IF /\ \/ dom[k].tag = "span" /\ class_has(dom[k], K_time)
                  \/ dom[k].tag = "time"
               /\ text # <<>>
            THEN <<RankedCandidate(text, 90, <<"Guessed DOM selector for time">>)>>
            ELSE <<>>])

\* selector.rs:562: an element with a class of change, diff, gain, loss, up or down.
change_pattern(e) ==
    \E sub \in {K_change, K_diff, K_gain, K_loss, K_up, K_down} : class_has(e, sub)

\* selector.rs:562-582: the signed texts with '%' (wants_pct) or without.
currency_changes(dom, wants_pct) ==
    Flatten([k \in 1..Len(dom) |->
        LET text == Trim(dom[k].text)
        IN  IF /\ change_pattern(dom[k]) /\ starts_with_sign(text)
               /\ ("%" \in Range(text)) = wants_pct
            THEN <<RankedCandidate(text, 90, <<"Guessed DOM selector for change", wants_pct>>)>>
            ELSE <<>>])

\* discover_currency_x_data, after the fetch: selector.rs:467-524.
discover_currency_x_data(code, page, seed) ==
    DiscoveredData(code, sel_url(code),
        deduplicate_and_sort_candidates(currency_names(page.dom), seed),
        deduplicate_and_sort_candidates(currency_prices(page.dom), seed),
        <<>>, <<>>,
        deduplicate_and_sort_candidates(currency_times(page.dom), seed))

\* discover_currency_fx_data, after the fetch: selector.rs:531-597.
discover_currency_fx_data(code, page, seed) ==
    DiscoveredData(code, sel_url(code),
        deduplicate_and_sort_candidates(currency_names(page.dom), seed),
        deduplicate_and_sort_candidates(currency_prices(page.dom), seed),
        deduplicate_and_sort_candidates(currency_changes(page.dom, FALSE), seed),
        deduplicate_and_sort_candidates(currency_changes(page.dom, TRUE), seed),
        <<>>)

\* The requested code taken as the code of the first page.
code_x_unchanged(code) == code

\* selector.rs:602-606
code_x_of(code) == IF EndsWith(code, SUFFIX_FX) THEN replace(code, SUFFIX_FX, SUFFIX_X) ELSE code

\* selector.rs:607
code_fx_of(code) == replace(code_x_of(code), SUFFIX_X, SUFFIX_FX)

\* The merge of discover_currency_data: selector.rs:615-624.
merge_currency(code, data_x, data_fx) ==
    DiscoveredData(code, data_x.url,
        data_x.name_candidates, data_x.price_candidates,
        data_fx.change_abs_candidates, data_fx.change_pct_candidates,
        data_x.update_time_candidates)

(***************************************************************************)
(* The routes of selector.rs: /quote (scrape_dynamically per code, under   *)
(* join_all) and /discover-data (one code).                                *)
(***************************************************************************)
\* selector.rs:633-639: the pipeline scrape_dynamically hands the code to.
quote_pipeline(code) ==
    IF StartsWith(code, <<"^">>) THEN "index"
    ELSE IF EndsWith(code, SUFFIX_X) \/ EndsWith(code, SUFFIX_FX) THEN "currency"
    ELSE "equity"

\* selector.rs:723-729: the pipeline /discover-data hands the code to.
discover_pipeline(code) ==
    IF StartsWith(code, <<"^">>) THEN "index"
    ELSE IF EndsWith(code, SUFFIX_X) THEN "currency"
    ELSE "equity"

\* The pages a pipeline requests, in order.
pipeline_urls(kind, code) ==
    IF kind = "currency" THEN <<sel_url(code_x_of(code)), sel_url(code_fx_of(code))>>
    ELSE <<sel_url(code)>>

\* The pages one code's run requests while every fetch succeeds:
\* scrape_dynamically fetches the code's own page first (selector.rs:630-632).
fetch_plan(p, code) ==
    IF p = "quote" THEN <<sel_url(code)>> \o pipeline_urls(quote_pipeline(code), code)
    ELSE pipeline_urls(discover_pipeline(code), code)

\* What the pipeline gives once its pages are fetched.
discovered_by(kind, code, pages, seed) ==
    CASE kind = "index" -> discover_index_data(code, pages[sel_url(code)], seed)
      [] kind = "equity" -> discover_data(code, pages[sel_url(code)], seed)
      [] kind = "currency" ->
            merge_currency(code,
                discover_currency_x_data(code_x_of(code), pages[sel_url(code_x_of(code))], seed),
                discover_currency_fx_data(code_fx_of(code), pages[sel_url(code_fx_of(code))], seed))

\* candidates.get(0).map_or(String::new(), |c| c.text.clone())
top_text(candidates) == IF candidates = <<>> THEN <<>> ELSE candidates[1].text

\* StockData of selector.rs:641-663 (the selectors reported with it come from
\* selector_generator, which is outside these sources).
stock_data(code, d) ==
    [name |-> JStr(top_text(d.name_candidates)),
     code |-> JStr(code),
     price |-> JStr(top_text(d.price_candidates)),
     change_abs |-> JStr(top_text(d.change_abs_candidates)),
     change_pct |-> JStr(top_text(d.change_pct_candidates)),
     update_time |-> JStr(top_text(d.update_time_candidates))]

E_SEND == "send failed"

E_BODY == "text failed"

\* selector.rs:685-695: the non-empty trimmed parts of the code parameter.
quote_codes(str) ==
    SelectSeq([k \in 1..Len(Split(str, ",")) |-> Trim(Split(str, ",")[k])], LAMBDA c : c # <<>>)

\* selector.rs:683-700
QuoteMain ==
    /\ prog = "quote" /\ mainpc = "init"
    /\ LET cs == IF codes_str = <<>> THEN <<>> ELSE quote_codes(codes_str[1])
       IN  IF cs = <<>> THEN Reject ELSE Spawn(cs)
    /\ UNCHANGED <<prog, codes_str, keys, web, norm_vars, rank_vars, verify_vars>>

\* selector.rs:714-729
DiscoverMain ==
    /\ prog = "discover" /\ mainpc = "init"
    /\ IF codes_str = <<>> THEN Reject ELSE Spawn(<<codes_str[1]>>)
    /\ UNCHANGED <<prog, codes_str, keys, web, norm_vars, rank_vars, verify_vars>>

\* A fetch that reports only a request that could not be sent.
fetch_error_send_only(page) == IF page.fetch = "senderr" THEN <<E_SEND>> ELSE <<>>

\* client.get(url).send().await?.text().await?: Err when the request or the
\* reading of the body fails.
fetch_error(page) ==
    IF page.fetch = "senderr" THEN <<E_SEND>>
    ELSE IF page.fetch = "texterr" THEN <<E_BODY>>
    ELSE <<>>

\* One fetch of code i's run: the next page of the plan.  /discover-data has
\* chosen the pipeline before its first fetch, scrape_dynamically chooses it
\* once its own fetch has succeeded.  A failure ends the run with the error
\* (every fetch is followed by `?`); the last page fetched, the run gives its
\* result.
SelFetch(i) ==
    /\ prog \in {"quote", "discover"} /\ mainpc = "running" /\ pc[i] = "send"
    /\ LET plan == fetch_plan(prog, codes[i])
           n == Len(fetched[i]) + 1
           url == plan[n]
           failure == fetch_error(web[url])
           kind == IF prog = "quote" THEN quote_pipeline(codes[i])
                   ELSE discover_pipeline(codes[i])
           handed == n = 1 /\ (prog = "discover" \/ failure = <<>>)
       IN  /\ fetched' = [fetched EXCEPT ![i] = Append(@, url)]
           /\ dispatched' = [dispatched EXCEPT ![i] = IF handed THEN Append(@, kind) ELSE @]
           /\ IF failure # <<>>
              THEN /\ Finish(i, CodeResult(codes[i], <<>>, failure), <<>>)
                   /\ UNCHANGED discovered
              ELSE IF n < Len(plan)
                   THEN UNCHANGED <<pc, results, attempted, discovered>>
                   ELSE LET d == discovered_by(kind, codes[i], web, rank_seed)
                        IN  /\ discovered' = [discovered EXCEPT ![i] = <<d>>]
                            /\ Finish(i, CodeResult(codes[i],
                                                    <<IF prog = "quote"
                                                      THEN stock_data(codes[i], d) ELSE d>>,
                                                    <<>>), <<>>)
    /\ UNCHANGED <<prog, codes_str, keys, web, mainpc, codes, response, norm_vars, rank_vars, verify_vars>>

\* selector.rs:700-712: join_all has every result; they are emitted in input order.
QuoteRespond ==
    /\ prog = "quote" /\ mainpc = "running"
    /\ \A i \in 1..Len(codes) : pc[i] = "done"
    /\ response' = <<Response("200", [i \in 1..Len(codes) |-> results[i][1]])>>
    /\ mainpc' = "responded"
    /\ UNCHANGED <<prog, codes_str, keys, web, codes, pc, results, attempted, fetched,
                   dispatched, discovered, norm_vars, rank_vars, verify_vars>>

\* selector.rs:731-734
DiscoverRespond ==
    /\ prog = "discover" /\ mainpc = "running" /\ pc[1] = "done"
    /\ response' = <<Response(IF results[1][1].error = <<>> THEN "200" ELSE "500",
                              <<results[1][1]>>)>>
    /\ mainpc' = "responded"
    /\ UNCHANGED <<prog, codes_str, keys, web, codes, pc, results, attempted, fetched,
                   dispatched, discovered, norm_vars, rank_vars, verify_vars>>

NextSel ==
    \/ QuoteMain
    \/ DiscoverMain
    \/ \E i \in 1..Len(codes) : SelFetch(i)
    \/ QuoteRespond
    \/ DiscoverRespond


(***************************************************************************)
(* Inputs of the selector.rs routes: codes, documents, pages.              *)
(***************************************************************************)
cUSDJPYFX == <<"U", "S", "D", "J", "P", "Y", "=", "F", "X">>

tT == <<"T">>

tPlus3 == <<"+", "3">>

tPlus3Pct == <<"+", "3", "%">>

tMinus3 == <<"-", "3">>

\* <title>T</title> and <h1>T</h1>
sTitle == SElem("title", <<>>, {}, tT)

sH1 == SElem("h1", <<>>, {}, tT)

\* <span class="PriceBoard__price"><span class="StyledNumber__value">250</span></span>
sBoardPrice == SElem("span", K_StyledNumber__value, {Anc("span", K_PriceBoard__price)}, t250)

\* <div class="rate"><span class="price">25</span></div>, and the same with -3
sRatePrice == SElem("span", K_price, {Anc("div", K_rate)}, t25)

sNegPrice == SElem("span", K_price, {Anc("div", K_rate)}, tMinus3)

\* <span class="change">+3</span> and <span class="change">+3%</span>
sChange == SElem("span", K_change, {}, tPlus3)

sChangePct == SElem("span", K_change, {}, tPlus3Pct)

\* <ul class="PriceBoard__times"><time class="timestamp">15:00</time></ul>
sTime == SElem("time", K_timestamp, {Anc("ul", K_PriceBoard__times)}, tTime)

\* <div class="_CommonPriceBoard__priceBlock"><span class="_StyledNumber__value">250</span></div>
sBlockPrice ==
    SElem("span", K__StyledNumber__value, {Anc("div", K__CommonPriceBoard__priceBlock)}, t250)

\* <span class="down">-</span>: a change that is not known
sNoChange == SElem("span", K_down, {}, <<"-">>)

\* <span class="_PriceChangeLabel__primary"><span class="_StyledNumber__value">-</span></span>
sIndexNoChange ==
    SElem("span", K__StyledNumber__value, {Anc("span", K__PriceChangeLabel__primary)}, <<"-">>)

\* <p>250</p>: a number in an element that is neither a span nor a div
sPara == SElem("p", <<>>, {}, t250)

\* <span class="price-code">25</span>
sCodePrice == SElem("span", K_price \o <<"-">> \o K_code, {}, t25)

SElemPool ==
    {sTitle, sH1, sBoardPrice, sRatePrice, sNegPrice, sChange, sChangePct, sTime, sBlockPrice,
     sNoChange, sIndexNoChange, sPara, sCodePrice}

SDoms == SeqsUpTo(SElemPool, MaxElems)

\* The state objects an index page may carry in its block.
IndexTrees ==
    {JObj([priceBoard |-> JObj([price |-> JStr(t250), change |-> JStr(tPlus3),
                                changePercent |-> JStr(<<"(">> \o tPlus3Pct \o <<")">>),
                                tradeTime |-> JStr(tTime)]),
           pageInfo |-> JObj([title |-> JStr(tT)])]),
     JObj([priceBoard |-> JObj([price |-> JStr(t250)])]),
     JObj([priceBoard |-> JObj([change |-> JStr(tPlus3), marketTime |-> JStr(tTime)])]),
     JObj([priceBoard |-> JObj([price |-> JStr(t250), change |-> JStr(tPlus3),
                                changePercent |-> JStr(tPlus3Pct)])]),
     JObj([pageInfo |-> JObj([title |-> JStr(tT)])])}

SFullDom == <<sTitle, sBlockPrice>>

\* The pages a single-page run is examined on.
SPages ==
    FailedPages
    \cup {Page("ok", "none", JNull, d) : d \in SDoms}
    \cup {Page("ok", "bad", JNull, SFullDom)}
    \cup {Page("ok", "ok", t, d) : t \in IndexTrees, d \in {<<>>, SFullDom, <<sTime>>}}

\* The pages a run of several pages is examined on.
SFewPages ==
    {Page("senderr", "none", JNull, <<>>),
     Page("texterr", "none", JNull, <<>>),
     Page("ok", "none", JNull, <<sH1, sRatePrice>>),
     Page("ok", "none", JNull, <<sRatePrice, sTime>>),
     Page("ok", "none", JNull, <<sChange, sChangePct>>),
     Page("ok", "none", JNull, <<sNegPrice, sChange>>),
     Page("ok", "none", JNull, <<sRatePrice, sNoChange>>)}

cTwo == c7203T \o <<",", " ">> \o cDJI

\* The values of the code parameter: absent, empty, blank, one code of each
\* shape, a code with a space before it, two codes.
SCodeArgs ==
    {<<>>, << <<>> >>, << <<" ">> >>, <<c7203T>>, <<cDJI>>, <<cUSDJPY>>, <<cUSDJPYFX>>,
     << <<" ">> \o cUSDJPY >>, <<cTwo>>}

\* The codes the route runs for the argument.
SCodes(p, arg) ==
    IF arg = <<>> THEN <<>>
    ELSE IF p = "quote" THEN quote_codes(arg[1]) ELSE <<arg[1]>>

\* The pages the route may request for the argument.
SUrls(p, arg) ==
    UNION {Range(fetch_plan(p, SCodes(p, arg)[i])) : i \in 1..Len(SCodes(p, arg))}

InitSel ==
    /\ prog \in {"quote", "discover"}
    /\ codes_str \in SCodeArgs
    /\ keys = <<>>
    /\ web \in [SUrls(prog, codes_str) ->
                   IF Cardinality(SUrls(prog, codes_str)) = 1 THEN SPages ELSE SFewPages]
    /\ Start /\ NoNorm /\ NoRank /\ NoVerify /\ rank_seed \in {0, MaxSeed}

SpecSel == InitSel /\ [][NextSel]_vars


\* The five candidate lists a pipeline has collected before the ranking:
\* selector.rs:89-249 (equity), :274-444 (index), :476-510 and :562-582
\* (currency: names, prices and times of the first page, changes of the second).
collected_by(kind, code, pages) ==
    CASE kind = "index" -> index_collected(pages[sel_url(code)])
      [] kind = "equity" ->
            LET dom == pages[sel_url(code)].dom
            IN  [names |-> equity_names(dom), prices |-> equity_prices(dom),
                 change_abs |-> equity_change_abs(dom),
                 change_pct |-> equity_change_pct(dom), times |-> equity_times(dom)]
      [] kind = "currency" ->
            LET dom_x == pages[sel_url(code_x_of(code))].dom
                dom_fx == pages[sel_url(code_fx_of(code))].dom
            IN  [names |-> currency_names(dom_x), prices |-> currency_prices(dom_x),
                 change_abs |-> currency_changes(dom_fx, FALSE),
                 change_pct |-> currency_changes(dom_fx, TRUE),
                 times |-> currency_times(dom_x)]


(***************************************************************************)
(* The services that answer a request with one result per code: the worker *)
(* and the routes of selector.rs.                                          *)
(***************************************************************************)
InitFetch == (Init /\ prog = "worker") \/ InitSel

NextFetch ==
    \/ WorkerMain
    \/ \E i \in 1..Len(codes) : WorkerSend(i)
    \/ \E i \in 1..Len(codes) : WorkerText(i)
    \/ WorkerRespond
    \/ NextSel

SpecFetch == InitFetch /\ [][NextFetch]_vars


(***************************************************************************)
(* The /verify-selector route of selector.rs.                              *)
(***************************************************************************)
MaxDocLen == 7

\* matches.iter().take(5)
SampleLimit == 5

NameChars ==
    {"a", "b", "c", "d", "e", "f", "g", "h", "i", "j", "k", "l", "m", "n", "o", "p", "q", "r",
     "s", "t", "u", "v", "w", "x", "y", "z", "0", "1", "2", "3", "4", "5", "6", "7", "8", "9"}

\* The longest prefix of s made of name characters.
RECURSIVE name_prefix(_)
name_prefix(s) ==
    IF s # <<>> /\ Head(s) \in NameChars THEN <<Head(s)>> \o name_prefix(Tail(s)) ELSE <<>>

ATTR_OPEN == <<"[", "c", "l", "a", "s", "s", "*", "=", "'">>

ATTR_CLOSE == <<"'", "]">>

\* Selector::parse, for the selectors the program itself writes: a tag name,
\* an attribute test [class*='sub'], or a tag name followed by the test.
\* <<[tag, sub]>> (tag "*" for any tag, sub <<>> for no test), or <<>> for a
\* parse error.  (The parser is the scraper crate's; anything outside this
\* fragment is taken here as an error.)
parse_selector(q) ==
    LET name == name_prefix(q)
        rest == SubSeq(q, Len(name) + 1, Len(q))
        sub == SubSeq(rest, Len(ATTR_OPEN) + 1, Len(rest) - Len(ATTR_CLOSE))
    IN  IF rest = <<>>
        THEN (IF name = <<>> THEN <<>> ELSE <<[tag |-> name, sub |-> <<>>]>>)
        ELSE IF /\ Len(rest) > Len(ATTR_OPEN) + Len(ATTR_CLOSE)
                /\ StartsWith(rest, ATTR_OPEN) /\ EndsWith(rest, ATTR_CLOSE)
                /\ "'" \notin Range(sub)
             THEN <<[tag |-> IF name = <<>> THEN <<"*">> ELSE name, sub |-> sub]>>
             ELSE <<>>

\* The element's tag as text.
tag_text(e) ==
    CASE e.tag = "span" -> <<"s", "p", "a", "n">>
      [] e.tag = "div" -> <<"d", "i", "v">>
      [] e.tag = "h1" -> <<"h", "1">>
      [] e.tag = "h2" -> <<"h", "2">>
      [] e.tag = "time" -> <<"t", "i", "m", "e">>
      [] e.tag = "title" -> <<"t", "i", "t", "l", "e">>
      [] OTHER -> <<>>

\* The element is selected by the parsed selector.
selector_matches(sel, e) ==
    /\ sel.tag = <<"*">> \/ sel.tag = tag_text(e)
    /\ sel.sub = <<>> \/ class_has(e, sel.sub)

\* document.select(&selector).collect(): the selected elements in document order.
select_all(dom, sel) == SelectSeq(dom, LAMBDA e : selector_matches(sel, e))

\* ElementInfo of selector.rs:802-806; the raw markup of an element is stood
\* for by the element.
ElementInfo(e) == [tag |-> e.tag, text |-> Trim(e.text), html |-> e]

\* iter().take(n)
take(list, n) == SubSeq(list, 1, IF Len(list) < n THEN Len(list) ELSE n)

VerificationResult(url, selector, valid, message, count, matches) ==
    [url |-> url, selector |-> selector, is_valid_syntax |-> valid, error_message |-> message,
     match_count |-> count, matches |-> matches]

E_SELECTOR == "selector parse error"

\* A sample that holds every match.
verify_selector_all(url, q, dom) ==
    LET parsed == parse_selector(q)
        found == IF parsed = <<>> THEN <<>> ELSE select_all(dom, parsed[1])
    IN  VerificationResult(url, q, parsed # <<>>, IF parsed = <<>> THEN <<E_SELECTOR>> ELSE <<>>,
                           Len(found), [k \in 1..Len(found) |-> ElementInfo(found[k])])

\* A result that leaves the parse error out.
verify_selector_silent(url, q, dom) ==
    LET parsed == parse_selector(q)
        found == IF parsed = <<>> THEN <<>> ELSE take(select_all(dom, parsed[1]), SampleLimit)
    IN  VerificationResult(url, q, parsed # <<>>, <<>>,
                           IF parsed = <<>> THEN 0 ELSE Len(select_all(dom, parsed[1])),
                           [k \in 1..Len(found) |-> ElementInfo(found[k])])

\* selector.rs:787-814: the result for a document and a query.
verify_selector(url, q, dom) ==
    LET parsed == parse_selector(q)
    IN  IF parsed # <<>>
        THEN LET found == select_all(dom, parsed[1])
                 sample == take(found, SampleLimit)
             IN  VerificationResult(url, q, TRUE, <<>>, Len(found),
                                    [k \in 1..Len(sample) |-> ElementInfo(sample[k])])
        ELSE VerificationResult(url, q, FALSE, <<E_SELECTOR>>, 0, <<>>)

\* selector.rs:763-776: the parameters are read; without both, 400.
VerifyMain ==
    /\ prog = "verify" /\ verify_pc = "init"
    /\ IF verify_req.url = <<>> \/ verify_req.selector = <<>>
       THEN /\ verify_response' = <<Response("400", <<>>)>>
            /\ verify_pc' = "done"
       ELSE /\ verify_pc' = "fetch"
            /\ UNCHANGED verify_response
    /\ UNCHANGED <<pipeline_vars, norm_vars, rank_vars, verify_req, verify_page>>

\* selector.rs:777-816: the page is fetched (a failure answers 500), parsed,
\* and the result is answered.
VerifyFetch ==
    /\ prog = "verify" /\ verify_pc = "fetch"
    /\ verify_response' =
          <<IF verify_page.fetch = "senderr" THEN Response("500", <<E_FETCH>>)
            ELSE IF verify_page.fetch = "texterr" THEN Response("500", <<E_TEXT>>)
            ELSE Response("200", <<verify_selector(verify_req.url[1], verify_req.selector[1],
                                                   verify_page.dom)>>)>>
    /\ verify_pc' = "done"
    /\ UNCHANGED <<pipeline_vars, norm_vars, rank_vars, verify_req, verify_page>>

qSpan == <<"s", "p", "a", "n">>

qPrice == ATTR_OPEN \o K_price \o ATTR_CLOSE

\* The queries: tag names, attribute tests, and texts that do not parse.
Queries ==
    {qSpan, <<"h", "1">>, qPrice, qSpan \o qPrice, qSpan \o ATTR_OPEN \o K_rate \o ATTR_CLOSE,
     <<>>, qSpan \o <<"[">>, ATTR_OPEN \o ATTR_CLOSE, <<"[", "[">>, qSpan \o <<" ", ">">>}

\* Documents of up to MaxDocLen elements.
VerifyElems == {sRatePrice, sChange, sH1}

VerifyPages ==
    FailedPages \cup {Page("ok", "none", JNull, d) : d \in SeqsUpTo(VerifyElems, MaxDocLen)}

InitVerify ==
    /\ prog = "verify" /\ codes_str = <<>> /\ keys = <<>> /\ web = <<>> /\ Start
    /\ NoNorm /\ NoRank /\ rank_seed = 0
    /\ verify_req \in [url : {<<>>, <<"u">>}, selector : {<<>>} \cup {<<q>> : q \in Queries}]
    /\ verify_page \in VerifyPages
    /\ verify_pc = "init" /\ verify_response = <<>>

NextVerify == VerifyMain \/ VerifyFetch

SpecVerify == InitVerify /\ [][NextVerify]_vars


(***************************************************************************)
(* Batches under join_all: the worker and the /quote route, several codes  *)
(* whose pipelines take their steps in any order.                          *)
(***************************************************************************)
SRawParts == {c7203T, cDJI, <<" ">> \o cUSDJPY, <<>>}

InitQuoteBatch ==
    /\ prog = "quote"
    /\ codes_str \in {<<Join(parts, ",")>> : parts \in SeqsUpTo(SRawParts, MaxParts) \ {<<>>}}
    /\ keys = <<>>
    /\ web \in [SUrls(prog, codes_str) -> SFewPages]
    /\ Start /\ NoNorm /\ NoRank /\ NoVerify /\ rank_seed \in {0, MaxSeed}

InitJoin == (InitBatch /\ prog = "worker") \/ InitQuoteBatch

NextJoin ==
    \/ WorkerMain
    \/ \E i \in 1..Len(codes) : WorkerSend(i)
    \/ \E i \in 1..Len(codes) : WorkerText(i)
    \/ WorkerRespond
    \/ QuoteMain
    \/ \E i \in 1..Len(codes) : SelFetch(i)
    \/ QuoteRespond

SpecJoin == InitJoin /\ [][NextJoin]_vars


(***************************************************************************)
(* Properties.                                                             *)
(***************************************************************************)
Pipelines == IF mainpc = "init" THEN {} ELSE 1..Len(codes)

Done(i) == i \in Pipelines /\ pc[i] = "done"

PageOf(i) == web[url_for(codes[i])]

\* A pipeline that fetched its page and ran its strategies on it.
Extracted(i) == Done(i) /\ PageOf(i).fetch = "ok"

Res(i) == results[i][1]

IsSuccess(r) == r.data # <<>>

IsError(r) == r.error # <<>>

Field(r, key) == IF IsSuccess(r) /\ key \in DOMAIN r.data[1] THEN <<r.data[1][key].s>> ELSE <<>>

\* Schema k matches, in the claim's words: its key path resolves to an object
\* whose code field is the requested code, normalized as the schema asks.
SchemaMatches(code, tree, k) ==
    LET source == get_data_sources[k]
        wanted == IF source.strip_suffix THEN SubSeq(code, 1, IndexOf(code \o <<".">>, ".") - 1)
                  ELSE code
        node == Descend(tree, source.path)
    IN  /\ node.t = "obj"
        /\ source.mappings.code \in DOMAIN node.o
        /\ node.o[source.mappings.code] = JStr(wanted)

SomeSchemaMatches(code, tree) == \E k \in 1..Len(get_data_sources) : SchemaMatches(code, tree, k)

\* C1: whenever some schema matches the requested code, the pipeline stops at
\* the schema lookup and the worker's record is tagged json_predefined, whatever
\* else the tree holds; a record tagged json_fallback exists only when no schema
\* matched.
CascadePrecedence ==
    \A i \in Pipelines :
        (Extracted(i) /\ PageOf(i).block = "ok") =>
            /\ SomeSchemaMatches(codes[i], PageOf(i).tree) =>
                   /\ IsSuccess(Res(i))
                   /\ attempted[i] = <<"schema">>
                   /\ prog = "worker" => Field(Res(i), "source") = <<T_PREDEFINED>>
            /\ Field(Res(i), "source") = <<T_FALLBACK>> =>
                   ~SomeSchemaMatches(codes[i], PageOf(i).tree)

\* A worker pipeline whose tree holds a matching schema object and, elsewhere,
\* an object the generic search matches, and whose record is tagged json_predefined.
CascadeBothPresent ==
    \E i \in Pipelines :
        /\ prog = "worker" /\ Extracted(i) /\ PageOf(i).block = "ok"
        /\ SomeSchemaMatches(codes[i], PageOf(i).tree)
        /\ path_matches(codes[i], PageOf(i).tree, <<"other">>)
        /\ Field(Res(i), "source") = <<T_PREDEFINED>>

\* C10: under a suffix-stripping schema "7203.T" and "7203" have the key "7203",
\* and any code c.T with c free of '.' has the key of c; the key of a key is the
\* key; a code without '.' is its own key; without stripping the code is its own key.
RequestedCodeNormalization ==
    /\ norm_out # <<>> =>
        /\ (norm_strip /\ norm_in \in {c7203T, c7203}) => norm_out = <<c7203>>
        /\ (norm_strip /\ EndsWith(norm_in, SUFFIX_T)
              /\ ~ContainsCh(SubSeq(norm_in, 1, Len(norm_in) - 2), "."))
             => norm_out = <<SubSeq(norm_in, 1, Len(norm_in) - 2)>>
        /\ ~ContainsCh(norm_in, ".") => norm_out = <<norm_in>>
        /\ ~norm_strip => norm_out = <<norm_in>>
    /\ norm_twice # <<>> => norm_twice = norm_out

\* "7203.T" normalized under a suffix-stripping schema, and normalized again.
NormalizedTwice ==
    norm_in = c7203T /\ norm_strip /\ norm_out = <<c7203>> /\ norm_twice = <<c7203>>

\* What the structured lookups of the running program give on pipeline i's tree.
JsonLookup(i) ==
    IF prog = "cli" THEN cli_json(codes[i], PageOf(i).tree)
    ELSE process_json_data(codes[i], PageOf(i).tree, keys)

Rank(strategy) == CASE strategy = "schema" -> 1 [] strategy = "generic" -> 2 [] strategy = "dom" -> 3

\* C2: the strategies of one pipeline run in the order schema, generic, DOM scan,
\* a record comes from the last strategy attempted, and when the block parsed
\* and both lookups report no match the DOM scan is attempted before the
\* pipeline ends.
StrictCascadeOrder ==
    \A i \in Pipelines :
        Extracted(i) =>
            /\ \A a, b \in 1..Len(attempted[i]) :
                   a < b => Rank(attempted[i][a]) < Rank(attempted[i][b])
            /\ (PageOf(i).block = "ok" /\ ~JsonLookup(i).ok) => "dom" \in Range(attempted[i])

\* C3: a block that fails to parse is not reported as the code's error; a later
\* strategy is attempted and decides the outcome.
MalformedBlockRecovered ==
    \A i \in Pipelines :
        (Extracted(i) /\ PageOf(i).block = "bad") =>
            /\ Res(i).error # <<E_JSON_PARSE>>
            /\ Range(attempted[i]) \cap {"generic", "dom"} # {}

\* The required fields an error message names.
Mentions(msg) ==
    CASE msg = E_DOM_NAME -> {"name"}
      [] msg = E_DOM_PRICE -> {"price"}
      [] OTHER -> {}

\* The required fields the DOM of pipeline i has no candidate for.
MissingInDom(i) ==
    {f \in {"name", "price"} : select_first(PageOf(i).dom, prog, f) = <<>>}

\* C4: when the strategies are exhausted without a record, the error names every
\* required field that had no candidate: both name and price when both are missing.
UnresolvedNamesMissingFields ==
    \A i \in Pipelines :
        (Extracted(i) /\ "dom" \in Range(attempted[i]) /\ IsError(Res(i))) =>
            MissingInDom(i) \subseteq Mentions(Res(i).error[1])

\* C5: a record that comes from the DOM scan has a name and a price, each the
\* non-empty text of the first candidate; with a candidate list empty the
\* outcome is an error.
DomSuccessHasNameAndPrice ==
    \A i \in Pipelines :
        (Extracted(i) /\ "dom" \in Range(attempted[i])) =>
            /\ IsSuccess(Res(i)) =>
                 /\ MissingInDom(i) = {}
                 /\ \A f \in {"name", "price"} :
                        /\ Field(Res(i), f) # <<>>
                        /\ Field(Res(i), f) # << <<>> >>
                        /\ Field(Res(i), f) =
                               select_first(PageOf(i).dom, prog, f)
            /\ MissingInDom(i) # {} => IsError(Res(i))

Ended == mainpc \in {"responded", "aborted"}

\* The results the program has emitted, in order.
Emitted == IF response = <<>> THEN <<>> ELSE response[1].body

\* C6: when the batch ends, every code whose own pipeline did not fail at the
\* fetch has run to completion and its result is among those emitted, whatever
\* happened to the other codes.
BatchIsolation ==
    Ended =>
        \A i \in 1..Len(codes) :
            codes[i] # <<>> =>
                \/ pc[i] = "failed"
                \/ pc[i] = "done" /\ Res(i) \in Range(Emitted)

\* The non-empty (after trimming) parts of a comma-separated list, in order.
TrimmedCodes(str) ==
    SelectSeq([k \in 1..Len(Split(str, ",")) |-> Trim(Split(str, ",")[k])], LAMBDA c : c # <<>>)

\* C7: the response holds exactly one result per non-empty (after trimming)
\* code, in input order, each with exactly one of data and error, and is
\* emitted only when every pipeline has ended.
OneResultPerCode ==
    mainpc = "responded" =>
        /\ [k \in 1..Len(Emitted) |-> Emitted[k].code] = TrimmedCodes(codes_str[1])
        /\ \A k \in 1..Len(Emitted) : IsSuccess(Emitted[k]) # IsError(Emitted[k])
        /\ \A i \in 1..Len(codes) : pc[i] \in {"done", "skipped"}

\* Scenario A: the price board of schema 1 holds code "7203", "7203.T" is
\* requested and no field list is given.
ScenarioA(i) ==
    /\ Extracted(i) /\ PageOf(i).block = "ok"
    /\ codes[i] = c7203T /\ keys = <<>>
    /\ Descend(PageOf(i).tree, get_data_sources[1].path) = JObj(Board(1, <<JStr(c7203)>>))

\* C8: in Scenario A the record carries code "7203", has the values under the
\* logical field names and not under the physical keys, and the worker tags it
\* with the schema source.
ScenarioARecordShape ==
    \A i \in Pipelines :
        ScenarioA(i) =>
            /\ Field(Res(i), "code") = <<c7203>>
            /\ Field(Res(i), "name") = <<tToyota>>
            /\ Field(Res(i), "price") = <<tPrice>>
            /\ Field(Res(i), "price_change") = <<tChange>>
            /\ Field(Res(i), "price_change_rate") = <<tRate>>
            /\ Field(Res(i), "update_time") = <<tTime>>
            /\ DOMAIN Res(i).data[1] \cap {"priceChange", "priceChangeRate", "priceDateTime"} = {}
            /\ prog = "worker" => Field(Res(i), "source") = <<T_PREDEFINED>>

\* C9: under the suffix-stripping schema an embedded code "7203.T" matches a
\* request for "7203.T" and a request for "7203".
EmbeddedCodeNormalized ==
    \A i \in Pipelines :
        (/\ Extracted(i) /\ PageOf(i).block = "ok"
         /\ codes[i] \in {c7203T, c7203}
         /\ Descend(PageOf(i).tree, get_data_sources[1].path) = JObj(Board(1, <<JStr(c7203T)>>)))
        => /\ IsSuccess(Res(i))
           /\ attempted[i] = <<"schema">>

\* Schema k matches: its key path resolves to an object whose code field is a
\* string that, trimmed, is the requested code, normalized as the schema asks.
SchemaHit(code, tree, k) ==
    LET source == get_data_sources[k]
        wanted == IF source.strip_suffix THEN SubSeq(code, 1, IndexOf(code \o <<".">>, ".") - 1)
                  ELSE code
        node == Descend(tree, source.path)
    IN  /\ node.t = "obj"
        /\ source.mappings.code \in DOMAIN node.o
        /\ node.o[source.mappings.code].t = "str"
        /\ Trim(node.o[source.mappings.code].s) = wanted

SchemaHits(code, tree) == {k \in 1..Len(get_data_sources) : SchemaHit(code, tree, k)}

\* The first schema of the table that matches.
FirstHit(code, tree) == CHOOSE k \in SchemaHits(code, tree) : \A j \in SchemaHits(code, tree) : k <= j

\* A pipeline that ran on a parsed block in which some schema matches.
SchemaCase(i) ==
    Extracted(i) /\ PageOf(i).block = "ok" /\ SchemaHits(codes[i], PageOf(i).tree) # {}

HitSource(i) == get_data_sources[FirstHit(codes[i], PageOf(i).tree)]

HitObject(i) == Descend(PageOf(i).tree, HitSource(i).path).o

\* The logical fields asked for: all of them in the extractor, the listed ones
\* in the worker.
Requested(f) == prog = "cli" \/ (keys # <<>> /\ f \in Range(keys[1]))

\* C11: when a schema matches, every requested logical field is in the record;
\* a field whose physical key the matched object lacks is "N/A", a field held as
\* a string or a bare number is its plain text.
AbsentFieldsAreNA ==
    \A i \in Pipelines :
        SchemaCase(i) =>
            \A f \in SelectorKeys :
                Requested(f) =>
                    Field(Res(i), f) =
                        IF HitSource(i).mappings[f] \in DOMAIN HitObject(i)
                        THEN <<HitObject(i)[HitSource(i).mappings[f]].s>>
                        ELSE <<T_NA>>

\* The price the record of pipeline i carries: under the logical name, or, when
\* the worker returns the matched object whole, under the schema's physical key.
RecordPrice(i) ==
    IF prog = "worker" /\ keys = <<>>
    THEN Field(Res(i), HitSource(i).mappings.price)
    ELSE Field(Res(i), "price")

\* C12: the record is taken from the first schema, in table order, whose path
\* resolves to an object with a matching code; schemas before it that do not
\* resolve or whose code differs are passed over without an error, and schemas
\* after it are not used.
SchemaPriority ==
    \A i \in Pipelines :
        SchemaCase(i) =>
            /\ IsSuccess(Res(i))
            /\ attempted[i] = <<"schema">>
            /\ RecordPrice(i) = <<HitObject(i)[HitSource(i).mappings.price].s>>

\* A pipeline whose first matching schema is not the first of the table, with a
\* later schema matching too, that ended with a record.
LaterSchemaAlsoMatches ==
    \E i \in Pipelines :
        /\ SchemaCase(i) /\ IsSuccess(Res(i))
        /\ FirstHit(codes[i], PageOf(i).tree) = 2
        /\ 3 \in SchemaHits(codes[i], PageOf(i).tree)
        /\ Descend(PageOf(i).tree, get_data_sources[1].path).t = "obj"

\* Every object of the tree, at any depth, inside objects and inside arrays.
RECURSIVE ObjectsIn(_)
ObjectsIn(value) ==
    IF value.t = "obj"
    THEN {value.o} \cup UNION {ObjectsIn(value.o[k]) : k \in DOMAIN value.o}
    ELSE IF value.t = "arr"
         THEN UNION {ObjectsIn(value.a[n]) : n \in 1..Len(value.a)}
         ELSE {}

\* The keys the generic search of the running program requires.
RequiredKeys == IF prog = "cli" THEN <<"code", "name">> ELSE <<"code">>

\* An object with every required key whose code is the requested code without
\* its suffix.
GenericTarget(code, obj) ==
    /\ Range(RequiredKeys) \subseteq DOMAIN obj
    /\ obj.code.t = "str"
    /\ Trim(obj.code.s) = SubSeq(code, 1, IndexOf(code \o <<".">>, ".") - 1)

\* C20: when no schema matches and some object of the tree, an element of an
\* array included, has the required keys and the requested code, the generic
\* lookup gives a record; and every path find_object_paths reports leads, from
\* the root, to an object with all the required keys.
GenericReachesArrays ==
    \A i \in Pipelines :
        (Extracted(i) /\ PageOf(i).block = "ok") =>
            /\ (/\ SchemaHits(codes[i], PageOf(i).tree) = {}
                /\ \E obj \in ObjectsIn(PageOf(i).tree) : GenericTarget(codes[i], obj))
               => (IsSuccess(Res(i)) /\ attempted[i] = <<"schema", "generic">>)
            /\ \A path \in Range(find_object_paths(PageOf(i).tree, RequiredKeys, <<>>)) :
                   /\ Descend(PageOf(i).tree, path).t = "obj"
                   /\ Range(RequiredKeys) \subseteq DOMAIN Descend(PageOf(i).tree, path).o

\* Text a comes strictly before text b in the byte-wise lexicographic order.
LexBefore(a, b) ==
    \/ Len(a) < Len(b) /\ SubSeq(b, 1, Len(a)) = a
    \/ \E n \in 1..Len(a) :
           /\ n <= Len(b)
           /\ SubSeq(a, 1, n - 1) = SubSeq(b, 1, n - 1)
           /\ Byte(a[n]) < Byte(b[n])

\* C14: in a ranked list the scores do not increase with the position, and of
\* two adjacent entries with the same score the first has the lesser text.
RankingMonotone ==
    rank_out # <<>> =>
        \A k \in 1..(Len(rank_out[1]) - 1) :
            /\ rank_out[1][k].score >= rank_out[1][k + 1].score
            /\ rank_out[1][k].score = rank_out[1][k + 1].score
                   => LexBefore(rank_out[1][k].text, rank_out[1][k + 1].text)

\* A ranked list of three entries, two of them with the same score.
RankedWithTie ==
    /\ rank_out # <<>> /\ Len(rank_out[1]) = 3
    /\ rank_out[1][1].score > rank_out[1][2].score
    /\ rank_out[1][2].score = rank_out[1][3].score

\* C15: for every text among the candidates the ranked list has exactly one
\* entry with that text, and its score is the highest score the candidates
\* with that text have.
MaxScorePerText ==
    rank_out # <<>> =>
        \A c \in Range(rank_in) :
            /\ Cardinality({k \in 1..Len(rank_out[1]) : rank_out[1][k].text = c.text}) = 1
            /\ \A e \in Range(rank_out[1]) :
                   e.text = c.text =>
                       /\ e.score >= c.score
                       /\ \E d \in Range(rank_in) : d.text = c.text /\ d.score = e.score

\* A text collected first with the lower score and then with the higher one.
LowerScoreCollectedFirst ==
    /\ rank_out # <<>> /\ Len(rank_in) >= 2
    /\ rank_in[1].text = rank_in[2].text
    /\ rank_in[1].score < rank_in[2].score
    /\ \E e \in Range(rank_out[1]) : e.text = rank_in[1].text /\ e.score = rank_in[2].score

\* The (text, score) pairs of a list, in order.
Pairs(list) == [k \in 1..Len(list) |-> <<list[k].text, list[k].score>>]

\* C16: a second run on the same candidates, collected in any other order or
\* with any other iteration order of the map, gives the same sequence of
\* (text, score) pairs.
RankingDeterministic ==
    rerank_out # <<>> => Pairs(rerank_out[1].ranked) = Pairs(rank_out[1])

\* A second run with another iteration order of the map on candidates of three
\* texts, two of them with the same score.
RehashedWithTie ==
    /\ rerank_out # <<>> /\ rerank_out[1].run = "rehashed"
    /\ Len(rerank_out[1].ranked) = 3
    /\ into_values(build_map(rank_in, <<>>), rank_seed) # rank_out[1]
    /\ \E a, b \in Range(rank_out[1]) : a.text # b.text /\ a.score = b.score

(***************************************************************************)
(* The routes of selector.rs.                                              *)
(***************************************************************************)
\* The codes whose discovery pipeline has returned its DiscoveredData.
Discovered == {i \in DOMAIN discovered : discovered[i] # <<>>}

\* The pipeline code i was handed to.
PipelineOf(i) == dispatched[i][1]

Texts(list) == {list[k].text : k \in 1..Len(list)}

UniqueTexts(list) == \A j, k \in 1..Len(list) : list[j].text = list[k].text => j = k

\* The five lists of a DiscoveredData beside the five lists collected for it.
ListPairs(d, c) ==
    {<<d.name_candidates, c.names>>, <<d.price_candidates, c.prices>>,
     <<d.change_abs_candidates, c.change_abs>>, <<d.change_pct_candidates, c.change_pct>>,
     <<d.update_time_candidates, c.times>>}

\* C13: in every candidate list of every DiscoveredData a pipeline returns
\* (equity, index, and the merged currency result with the lists of both of its
\* pages), no two entries have the same text, and the texts of the list are
\* exactly the distinct texts among the candidates collected for it.
DeduplicationUniqueness ==
    \A i \in Discovered :
        \A pair \in ListPairs(discovered[i][1], collected_by(PipelineOf(i), codes[i], web)) :
            UniqueTexts(pair[1]) /\ Texts(pair[1]) = Texts(pair[2])

\* A pipeline has returned a list for which it had collected the same
\* text more than once.
DuplicateTextCollected ==
    \E i \in Discovered :
        \E pair \in ListPairs(discovered[i][1], collected_by(PipelineOf(i), codes[i], web)) :
            pair[1] # <<>> /\ Len(pair[2]) > Len(pair[1])


\* The pipeline the claimed rule selects for a code: a leading '^' the index
\* pipeline, otherwise a trailing "=X" or "=FX" the currency pipeline,
\* otherwise the equity pipeline.
ShapeOf(code) ==
    IF StartsWith(code, <<"^">>) THEN "index"
    ELSE IF EndsWith(code, SUFFIX_X) \/ EndsWith(code, SUFFIX_FX) THEN "currency"
    ELSE "equity"

\* C17: whichever entry runs (/quote through scrape_dynamically, or
\* /discover-data), a code that is handed to a pipeline is handed to the one
\* its shape selects.
DispatchByShape ==
    \A i \in DOMAIN dispatched : dispatched[i] # <<>> => PipelineOf(i) = ShapeOf(codes[i])


\* The codes handed to the currency pipeline whose pipeline has returned.
MergedCurrency == {i \in Discovered : PipelineOf(i) = "currency"}

\* The code without its trailing "=X" or "=FX".
PairOf(code) ==
    IF EndsWith(code, SUFFIX_FX) THEN SubSeq(code, 1, Len(code) - 3)
    ELSE SubSeq(code, 1, Len(code) - 2)

\* The pages the currency pipeline of code i requested, in order (under /quote
\* they follow the page scrape_dynamically requested itself).
CurrencyFetches(i) ==
    IF prog = "quote" THEN Tail(fetched[i]) ELSE fetched[i]

\* C18: when the currency pipeline has returned for a code ending in "=X" or
\* "=FX", it requested the "=X" page first and the "=FX" page second whichever
\* of the two was asked for; the merged result has the name, price and update
\* time candidates of the first page and the change and change-rate candidates
\* of the second, and carries the code as it was requested.
CurrencyMergeRule ==
    \A i \in MergedCurrency :
        LET d == discovered[i][1]
            primary == PairOf(codes[i]) \o SUFFIX_X
            secondary == PairOf(codes[i]) \o SUFFIX_FX
            x == discover_currency_x_data(primary, web[sel_url(primary)], rank_seed)
            fx == discover_currency_fx_data(secondary, web[sel_url(secondary)], rank_seed)
        IN  /\ CurrencyFetches(i) = <<sel_url(primary), sel_url(secondary)>>
            /\ d.name_candidates = x.name_candidates
            /\ d.price_candidates = x.price_candidates
            /\ d.update_time_candidates = x.update_time_candidates
            /\ d.change_abs_candidates = fx.change_abs_candidates
            /\ d.change_pct_candidates = fx.change_pct_candidates
            /\ d.code = codes[i]
            /\ (prog = "quote" => results[i][1].data[1].code = JStr(codes[i]))

\* The "=FX" code was requested, and the merged result has candidates of both
\* pages: a price and a change, and the two pages hold different elements.
MergedFromBothPages ==
    \E i \in MergedCurrency :
        /\ EndsWith(codes[i], SUFFIX_FX)
        /\ discovered[i][1].price_candidates # <<>>
        /\ discovered[i][1].change_abs_candidates # <<>>
        /\ web[sel_url(code_x_of(codes[i]))] # web[sel_url(code_fx_of(codes[i]))]


\* The k-th fetch of code i's pipeline failed: the request or the body.
FetchFailed(i, k) == web[fetched[i][k]].fetch # "ok"

\* Code i's result is an error that carries a fetch failure.
FetchErrorResult(i) ==
    /\ pc[i] = "done" /\ results[i] # <<>>
    /\ results[i][1].data = <<>>
    /\ results[i][1].error \in {<<E_FETCH>>, <<E_TEXT>>, <<E_SEND>>, <<E_BODY>>}
    /\ results[i][1].error =
          IF prog = "worker"
          THEN (IF web[fetched[i][Len(fetched[i])]].fetch = "senderr" THEN <<E_FETCH>>
                ELSE <<E_TEXT>>)
          ELSE (IF web[fetched[i][Len(fetched[i])]].fetch = "senderr" THEN <<E_SEND>>
                ELSE <<E_BODY>>)

\* C19: in one code's pipeline (the worker's, scrape_dynamically's, a discovery
\* pipeline's) a fetch that failed is the last fetch issued for the code, and
\* once the failure has been seen the code's result is an error carrying it; so
\* after a failed first page the currency pipeline never requests the second.
\* (The worker sees a failure of the body one step after the request: the only
\* state with a failed fetch and no result yet.)
FetchFailureTerminal ==
    \A i \in DOMAIN fetched :
        \A k \in 1..Len(fetched[i]) :
            FetchFailed(i, k) =>
                /\ k = Len(fetched[i])
                /\ \/ FetchErrorResult(i)
                   \/ prog = "worker" /\ pc[i] = "text" /\ web[fetched[i][k]].fetch = "texterr"

\* The currency pipeline's first page failed while its second page would have
\* been served: the run has ended with the error and one fetch.
PrimaryFailedSecondaryServed ==
    \E i \in DOMAIN fetched :
        /\ prog = "discover" /\ dispatched[i] = <<"currency">>
        /\ fetched[i] = <<sel_url(code_x_of(codes[i]))>>
        /\ FetchFailed(i, 1) /\ FetchErrorResult(i)
        /\ web[sel_url(code_fx_of(codes[i]))].fetch = "ok"
        /\ response # <<>>


\* The page code i's single-page pipeline scanned.
ScannedPage(i) == web[sel_url(codes[i])]

\* An element a price pattern of the pipeline selects.
PricePatternElement(kind, e) ==
    IF kind = "index"
    THEN in_price_block(e)
         \/ (e.tag \in {"span", "div"} /\ under(e, "div", K__BasePriceBoard__priceInformation))
    ELSE \E n \in 1..NumPricePatterns : price_pattern(n, e)

\* The headings and the price-pattern elements of a document, by position.
HeadingsOf(dom) == {k \in 1..Len(dom) : dom[k].tag \in {"h1", "h2"}}

PriceElementsOf(kind, dom) == {k \in 1..Len(dom) : PricePatternElement(kind, dom[k])}

\* The page of Scenario B: no structured block, and a document of one heading
\* with a text and one price-pattern element whose text is a price.
ScenarioBPage(kind, page) ==
    /\ page.fetch = "ok" /\ page.block = "none" /\ Len(page.dom) = 2
    /\ Cardinality(HeadingsOf(page.dom)) = 1
    /\ Cardinality(PriceElementsOf(kind, page.dom)) = 1
    /\ \A k \in HeadingsOf(page.dom) : Trim(page.dom[k].text) # <<>>
    /\ \A k \in PriceElementsOf(kind, page.dom) :
           /\ any_digit(Trim(page.dom[k].text))
           /\ parses_non_negative(remove_commas(Trim(page.dom[k].text)))

\* C21: on the page of Scenario B, the discovery pipeline ranks the heading's
\* text first among the names and the price element's text first among the
\* prices, and the quote extraction returns a record with that name and price.
ScenarioBTopCandidates ==
    \A i \in Discovered :
        (PipelineOf(i) # "currency" /\ ScenarioBPage(PipelineOf(i), ScannedPage(i))) =>
            LET dom == ScannedPage(i).dom
                N == Trim(dom[CHOOSE k \in HeadingsOf(dom) : TRUE].text)
                P == Trim(dom[CHOOSE k \in PriceElementsOf(PipelineOf(i), dom) : TRUE].text)
                d == discovered[i][1]
            IN  /\ top_text(d.name_candidates) = N
                /\ top_text(d.price_candidates) = P
                /\ (prog = "quote" =>
                       /\ results[i][1].error = <<>>
                       /\ results[i][1].data[1].name = JStr(N)
                       /\ results[i][1].data[1].price = JStr(P))


(***************************************************************************)
(* The verifier.                                                           *)
(***************************************************************************)
\* The verifier has answered with a verification result.
Verified == verify_response # <<>> /\ verify_response[1].status = "200"

VerifiedResult == verify_response[1].body[1]

\* The positions of the document's elements the request's query selects.
MatchingPositions ==
    {k \in 1..Len(verify_page.dom) :
        selector_matches(parse_selector(verify_req.selector[1])[1], verify_page.dom[k])}

\* The j-th least member of a set of positions.
RECURSIVE NthOf(_, _)
NthOf(S, j) == IF j = 1 THEN Min(S) ELSE NthOf(S \ {Min(S)}, j - 1)

\* C22: for a query that parses, the result's match_count is the number of
\* elements of the document the query selects, and its sample holds
\* min(5, match_count) entries: the first selected elements, in document order.
VerifierSampleBound ==
    (Verified /\ VerifiedResult.is_valid_syntax) =>
        LET n == Cardinality(MatchingPositions)
        IN  /\ VerifiedResult.match_count = n
            /\ Len(VerifiedResult.matches) = (IF n < 5 THEN n ELSE 5)
            /\ \A j \in 1..Len(VerifiedResult.matches) :
                  VerifiedResult.matches[j] =
                      ElementInfo(verify_page.dom[NthOf(MatchingPositions, j)])

\* A query that parses selected more than five elements, not all of the document.
MoreThanFiveMatches ==
    /\ Verified /\ VerifiedResult.is_valid_syntax
    /\ VerifiedResult.match_count > 5
    /\ VerifiedResult.match_count < Len(verify_page.dom)

\* C23: for a query that does not parse, the verifier still answers with a
\* result: is_valid_syntax false, an error message, match_count 0 and no
\* sample; and in every result an error message is present exactly when
\* is_valid_syntax is false.
MalformedQueryReported ==
    Verified =>
        /\ (VerifiedResult.error_message # <<>>) = (~VerifiedResult.is_valid_syntax)
        /\ ~VerifiedResult.is_valid_syntax =>
              VerifiedResult.match_count = 0 /\ VerifiedResult.matches = <<>>
        /\ VerifiedResult.is_valid_syntax = (parse_selector(verify_req.selector[1]) # <<>>)

\* A query that does not parse was verified against a document with elements.
MalformedQueryVerified ==
    /\ Verified /\ ~VerifiedResult.is_valid_syntax
    /\ VerifiedResult.error_message # <<>>
    /\ verify_page.dom # <<>>


(***************************************************************************)
(* Batches.                                                                *)
(***************************************************************************)
\* What a request for the one code gives on the same pages: the worker's
\* fetch_single_code, or scrape_dynamically whatever the order of its maps.
SingleRequestResult(code) ==
    IF prog = "worker"
    THEN LET page == web[url_for(code)]
         IN  IF page.fetch = "senderr" THEN CodeResult(code, <<>>, <<E_FETCH>>)
             ELSE IF page.fetch = "texterr" THEN CodeResult(code, <<>>, <<E_TEXT>>)
             ELSE to_code_result(code, extract(code, page, keys))
    ELSE LET plan == fetch_plan("quote", code)
             failing == {k \in 1..Len(plan) : web[plan[k]].fetch # "ok"}
         IN  IF failing # {}
             THEN CodeResult(code, <<>>, fetch_error(web[plan[Min(failing)]]))
             ELSE CodeResult(code,
                             <<stock_data(code, discovered_by(quote_pipeline(code), code, web, 0))>>,
                             <<>>)

\* C24: whatever the sibling codes and whatever the order in which the
\* concurrent pipelines take their steps, the result a batch holds for a code,
\* and reports at the code's position, is the result of a request for that code
\* alone on the same pages.
PipelinesDoNotInterfere ==
    /\ \A i \in DOMAIN results :
          results[i] # <<>> => results[i][1] = SingleRequestResult(codes[i])
    /\ (response # <<>> /\ response[1].status = "200") =>
          /\ Len(response[1].body) = Len(codes)
          /\ \A i \in DOMAIN codes : response[1].body[i] = SingleRequestResult(codes[i])

\* Two pipelines overlapped: a later code of the batch has its record while an
\* earlier one, on another page, has made a request and has no result yet.
SiblingFinishedFirst ==
    \E i, j \in DOMAIN codes :
        /\ i < j /\ codes[i] # codes[j]
        /\ fetched[i] # <<>> /\ results[i] = <<>>
        /\ results[j] # <<>> /\ results[j][1].error = <<>>


(***************************************************************************)
(* The field predicates of the discovery scans.                            *)
(***************************************************************************)
\* The price predicate: a digit, and without its ',' a non-negative decimal.
PricePredicate(text) == any_digit(text) /\ parses_non_negative(remove_commas(text))

\* The pipeline of code i took the field's candidates from the document (the
\* index pipeline takes them from the state object when it has them).
PricesFromDom(i) ==
    PipelineOf(i) = "index" => index_json_prices(index_price_board(index_json(ScannedPage(i)))) = <<>>

\* C25: every text a pipeline's scan of the document (equity, index fallback,
\* currency) has placed among the price candidates satisfies the price
\* predicate.
PricePredicateHolds ==
    \A i \in Discovered :
        PricesFromDom(i) =>
            \A k \in 1..Len(discovered[i][1].price_candidates) :
                PricePredicate(discovered[i][1].price_candidates[k].text)


\* The price-change predicate: a leading '+' or '-', and a digit.
ChangePredicate(text) == starts_with_sign(text) /\ any_digit(text)

ChangesFromDom(i) ==
    PipelineOf(i) = "index" =>
        index_json_change_abs(index_price_board(index_json(ScannedPage(i)))) = <<>>

\* C26: every text a pipeline's scan of the document has placed among the
\* absolute price-change candidates begins with '+' or '-' and has a digit.
ChangePredicateHolds ==
    \A i \in Discovered :
        ChangesFromDom(i) =>
            \A k \in 1..Len(discovered[i][1].change_abs_candidates) :
                ChangePredicate(discovered[i][1].change_abs_candidates[k].text)


\* The price candidates of the dedicated patterns, and those of the generic
\* scan of the span and div elements, whichever of them the scan ran.
DedicatedPrices(dom) ==
    {c \in Range(equity_prices(dom)) : c.reason[1] = "pattern"}

FallbackPrices(dom) ==
    {c \in Range(equity_prices(dom)) : c.reason[1] = "Fallback"}

\* An element of the document whose text satisfies the price predicate.
HasPlausiblePrice(dom) == \E k \in 1..Len(dom) : PricePredicate(Trim(dom[k].text))

\* An element a dedicated pattern selects and whose text is a price.
HasDedicatedPrice(dom) ==
    \E k \in 1..Len(dom) :
        /\ \E n \in 1..NumPricePatterns : price_pattern(n, dom[k])
        /\ PricePredicate(Trim(dom[k].text))

\* C27: in the equity scan the generic fallback (score 10) contributes exactly
\* when the dedicated patterns found nothing, a price list never mixes the two
\* kinds, and the list is empty only if no element of the page has a text
\* satisfying the price predicate.
WideningExactlyWhenEmpty ==
    \A i \in Discovered :
        PipelineOf(i) = "equity" =>
            LET dom == ScannedPage(i).dom
                prices == discovered[i][1].price_candidates
            IN  /\ HasDedicatedPrice(dom) =>
                      \A k \in 1..Len(prices) : prices[k].score # sFallback
                                                \/ prices[k].reason[1] = "pattern"
                /\ ~(DedicatedPrices(dom) # {} /\ FallbackPrices(dom) # {})
                /\ ~HasDedicatedPrice(dom) =>
                      \A k \in 1..Len(prices) : prices[k].reason[1] = "Fallback"
                                                /\ prices[k].score = 10
                /\ prices = <<>> => ~HasPlausiblePrice(dom)


\* C28: whatever the pattern and the bonuses and penalty applied, a price
\* candidate found by a dedicated pattern of the equity scan has a score
\* strictly greater than the generic fallback's 10, and no score is below zero.
DedicatedOutranksFallback ==
    \A i \in Discovered :
        PipelineOf(i) = "equity" =>
            /\ \A c \in DedicatedPrices(ScannedPage(i).dom) : c.score > 10
            /\ \A k \in 1..Len(discovered[i][1].price_candidates) :
                  /\ discovered[i][1].price_candidates[k].score >= 0
                  /\ discovered[i][1].price_candidates[k].reason[1] = "pattern" =>
                        discovered[i][1].price_candidates[k].score > 10


(***************************************************************************)
(* The order of the generic search.                                        *)
(***************************************************************************)
\* The objects of a tree in depth-first pre-order: an object before the
\* objects inside it, members in key order, array elements in their order.
RECURSIVE PreOrder(_)
RECURSIVE PreOrderMembers(_, _)
RECURSIVE PreOrderElements(_)
PreOrder(value) ==
    IF value.t = "obj"
    THEN <<value.o>> \o PreOrderMembers(value.o, SortedKeys(DOMAIN value.o))
    ELSE IF value.t = "arr" THEN PreOrderElements(value.a)
    ELSE <<>>

PreOrderMembers(map, ks) ==
    IF ks = <<>> THEN <<>> ELSE PreOrder(map[Head(ks)]) \o PreOrderMembers(map, Tail(ks))

PreOrderElements(arr) ==
    IF arr = <<>> THEN <<>> ELSE PreOrder(Head(arr)) \o PreOrderElements(Tail(arr))

\* The objects find_object_paths is to report for the worker: those with a
\* "code" key, in pre-order.
Reported(tree) == SelectSeq(PreOrder(tree), LAMBDA obj : "code" \in DOMAIN obj)

\* Those of them whose code is the requested code without its suffix.
ReportedMatching(code, tree) ==
    SelectSeq(Reported(tree),
              LAMBDA obj : obj.code.t = "str"
                           /\ Trim(obj.code.s) = SubSeq(code, 1, IndexOf(code \o <<".">>, ".") - 1))

\* A worker pipeline that ran the generic search on a parsed block.
GenericCase(i) ==
    /\ prog = "worker" /\ Extracted(i) /\ PageOf(i).block = "ok"
    /\ SchemaHits(codes[i], PageOf(i).tree) = {}

\* C29: find_object_paths reports the objects that have the key in depth-first
\* pre-order, one path per object and each path leading to its object; and the
\* generic lookup returns the record built from the first reported object whose
\* code matches, whatever matching objects come later.
GenericDiscoveryOrder ==
    \A i \in Pipelines :
        GenericCase(i) =>
            LET tree == PageOf(i).tree
                paths == find_object_paths(tree, <<"code">>, <<>>)
                matching == ReportedMatching(codes[i], tree)
            IN  /\ Len(paths) = Len(Reported(tree))
                /\ \A j \in 1..Len(paths) :
                      /\ Descend(tree, paths[j]).t = "obj"
                      /\ Descend(tree, paths[j]).o = Reported(tree)[j]
                /\ matching # <<>> =>
                      /\ IsSuccess(Res(i))
                      /\ Res(i).data[1] =
                            build_results(codes[i], matching[1], fallback_mappings, keys,
                                          T_FALLBACK)


\* The candidates the embedded state object gives for each field of an index
\* page, and the candidates the document fallback of the field gives.
IndexJsonField(page) ==
    LET board == index_price_board(index_json(page))
    IN  [price |-> index_json_prices(board), change_abs |-> index_json_change_abs(board),
         change_pct |-> index_json_change_pct(board), times |-> index_json_times(board)]

IndexDomField(dom) ==
    [price |-> IF index_dom_prices_block(dom) # <<>> THEN index_dom_prices_block(dom)
               ELSE index_dom_prices_broader(dom),
     change_abs |-> index_dom_change_abs(dom), change_pct |-> index_dom_change_pct(dom),
     times |-> index_dom_times(dom)]

IndexDiscoveredField(i) ==
    [price |-> discovered[i][1].price_candidates,
     change_abs |-> discovered[i][1].change_abs_candidates,
     change_pct |-> discovered[i][1].change_pct_candidates,
     times |-> discovered[i][1].update_time_candidates]

IndexFields == {"price", "change_abs", "change_pct", "times"}

\* C30: in the index scan, for each of price, change, change rate and update
\* time, when the state object gave no candidate for the field the document
\* fallback of that field is applied whatever the other fields gave, and when
\* the state object gave a candidate no document candidate is added to it.
IndexFallbackPerField ==
    \A i \in Discovered :
        PipelineOf(i) = "index" =>
            \A f \in IndexFields :
                LET json == IndexJsonField(ScannedPage(i))[f]
                    dom == IndexDomField(ScannedPage(i).dom)[f]
                    got == IndexDiscoveredField(i)[f]
                IN  /\ json = <<>> => Texts(got) = Texts(dom)
                    /\ json # <<>> => Texts(got) = Texts(json)

====
